---- MODULE Spec2Model ----
(***************************************************************************)
(* The deterministic variant generator, the response normalizer, the HTTP  *)
(* routes and the Stripe webhook of the AI Trust server (server/index.js),  *)
(* and the intake dialogue of its chat page (public/app.js), as state       *)
(* machines.                                                                *)
(*                                                                         *)
(* Numbers.  A 32-bit word is a pair <<hi, lo>> of 16-bit halves, so that  *)
(* the arithmetic of mulberry32 wraps modulo 2^32 exactly as `| 0`,        *)
(* Math.imul and `>>>` do.  A draw of the generator is the word u whose    *)
(* value is u / 2^32 in [0,1).                                             *)
(***************************************************************************)
EXTENDS Integers, Naturals, Sequences, FiniteSets, TLC

VARIABLES
  scoreVariantCursor,  \* let scoreVariantCursor: index of the next seed
  LOCKED_INSIGHTS,     \* the module-level arrays that are handed to
  EXPERIMENT_LIB,      \*   pickDistinct as they are (no .map or .flat
  CHECKLIST_LIB,       \*   in between)
  input,               \* the arguments under observation, drawn at start
  call,                \* the operation that ran last, with its arguments
  ret,                 \* what that operation returned, or that it threw
  memo,                \* the result of the first buildVariantFromSeed(input)
  callerPool,          \* the caller's array handed to pickDistinct
  calls,               \* number of operations run so far
  OPENAI_API_KEY,      \* whether process.env.OPENAI_API_KEY is set
  FREE_BUILD_LIMIT,    \* const FREE_BUILD_LIMIT
  SESSION_STORE,       \* the Map of sessions, by session id
  SESSION_INDEX_BY_CUSTOMER, \* the Map from Stripe customer id to session id
  requests,            \* the HTTP requests received, in order of arrival
  liveCalls,           \* number of fetch calls issued to the live model
  now,                 \* Date.now()
  state                \* the state object of the chat page (public/app.js)

\* the state of the HTTP server and of the chat page it serves
serverVars ==
  <<OPENAI_API_KEY, FREE_BUILD_LIMIT, SESSION_STORE, SESSION_INDEX_BY_CUSTOMER, requests,
    liveCalls, now, state>>

\* const state of public/app.js as the page loads: the conversation holds the
\* greeting; the question arrays are kept by their lengths
PageLoaded ==
  [conversation |-> 1, intakeAnswers |-> <<>>, intakeQuestionIndex |-> 0,
   awaitingIntake |-> FALSE, expectingIntakeAnswer |-> FALSE,
   dynamicIntakeQuestions |-> 0, pendingFollowups |-> 0]

\* the Stripe customer ids of the model
Customers == {"cus_A", "cus_B"}

\* new Map(): get returns undefined (0 here) for every customer
EmptyIndex == [customerId \in Customers |-> 0]

vars ==
  <<scoreVariantCursor, LOCKED_INSIGHTS, EXPERIMENT_LIB, CHECKLIST_LIB, input,
    call, ret, memo, callerPool, calls, serverVars>>

\* the server before any request, without a key and with the default limit
ServerIdle ==
  /\ OPENAI_API_KEY = FALSE
  /\ FREE_BUILD_LIMIT = 1
  /\ SESSION_STORE = <<>>
  /\ SESSION_INDEX_BY_CUSTOMER = EmptyIndex
  /\ requests = <<>>
  /\ liveCalls = 0
  /\ now = 0
  /\ state = PageLoaded

W16 == 2 ^ 16

\* ---- 32-bit word arithmetic ---------------------------------------------

RECURSIVE Xor(_, _)
Xor(a, b) ==
  IF a = 0 THEN b
  ELSE IF b = 0 THEN a
  ELSE (((a % 2) + (b % 2)) % 2) + 2 * Xor(a \div 2, b \div 2)

RECURSIVE Or(_, _)
Or(a, b) ==
  IF a = 0 THEN b
  ELSE IF b = 0 THEN a
  ELSE (IF (a % 2) + (b % 2) > 0 THEN 1 ELSE 0) + 2 * Or(a \div 2, b \div 2)

ToWord(n) == <<(n \div W16) % W16, n % W16>>

WXor(x, y) == <<Xor(x[1], y[1]), Xor(x[2], y[2])>>

WOr(x, y) == <<Or(x[1], y[1]), Or(x[2], y[2])>>

\* x >>> n, for 0 < n < 16
WShr(x, n) ==
  LET p == 2 ^ n
      q == 2 ^ (16 - n)
  IN  <<x[1] \div p, (x[2] \div p) + (x[1] % p) * q>>

\* (x + y) | 0
WAdd(x, y) ==
  LET lo == x[2] + y[2]
  IN  <<(x[1] + y[1] + (lo \div W16)) % W16, lo % W16>>

\* (a * b) mod 2^16 for 16-bit a, b, without leaving 31 bits
MulLow16(a, b) ==
  (((a % 256) * b) + ((((a \div 256) * b) % 256) * 256)) % W16

\* Math.imul(x, y): the low 32 bits of the product
imul(x, y) ==
  LET p0 == (x[2] % 256) * y[2]
      p1 == (x[2] \div 256) * y[2]
      s  == p0 + ((p1 % 256) * 256)
      carry == (s \div W16) + (p1 \div 256)
  IN  <<(carry + MulLow16(x[1], y[2]) + MulLow16(x[2], y[1])) % W16, s % W16>>

\* ---- mulberry32 ---------------------------------------------------------

\* 0x6d2b79f5
MulberryStep == <<27947, 31221>>

\* one call of the closure returned by mulberry32, from the state a AFTER the
\* increment: the word whose value / 4294967296 is returned
mulberryMix(a) ==
  LET t1 == imul(WXor(a, WShr(a, 15)), WOr(ToWord(1), a))
      t2 == WXor(WAdd(t1, imul(WXor(t1, WShr(t1, 7)), WOr(ToWord(61), t1))), t1)
  IN  WXor(t2, WShr(t2, 14))

\* the first n draws of mulberry32(a), a given as a word
RECURSIVE mulberryDraws(_, _)
mulberryDraws(a, n) ==
  IF n = 0 THEN <<>>
  ELSE LET a1 == WAdd(a, MulberryStep)
       IN  <<mulberryMix(a1)>> \o mulberryDraws(a1, n - 1)

\* number of draws of a stream that are materialised
StreamLen == 24

\* SCORE_VARIANT_SEEDS = Array.from({ length: 100 }, (_, i) => i + 1)
SCORE_VARIANT_SEEDS == [i \in 1..100 |-> i]

\* the streams of the generators buildVariantFromSeed creates for the seeds
\* of SCORE_VARIANT_SEEDS (seed * 9973 + 17), computed once
RECURSIVE poolStreams(_)
poolStreams(n) ==
  IF n = 0 THEN <<>>
  ELSE Append(poolStreams(n - 1),
              mulberryDraws(ToWord((SCORE_VARIANT_SEEDS[n] * 9973) + 17), StreamLen))

PoolStreams == poolStreams(Len(SCORE_VARIANT_SEEDS))

\* An rng is a stream of draws and the number of draws consumed so far.
mulberry32(a) ==
  [s |-> IF (a - 17) % 9973 = 0 /\ ((a - 17) \div 9973) \in 1..Len(PoolStreams)
         THEN PoolStreams[(a - 17) \div 9973]
         ELSE mulberryDraws(ToWord(a), StreamLen),
   i |-> 0]

\* the k-th next draw of rng, and rng after k draws
Draw(rng, k) == rng.s[rng.i + k]

Skip(rng, k) == [rng EXCEPT !.i = rng.i + k]

\* Math.floor(r * len), r the draw
floorMul(r, len) == ((r[1] * len) + ((r[2] * len) \div W16)) \div W16

\* randomBetween(rng, min, max) for the draw r = rng():
\* Math.round(r * (max - min) + min), Math.round being floor(x + 1/2)
randomBetween(r, min, max) ==
  LET k == max - min
  IN  (((2 * r[1] * k) + ((2 * r[2] * k) \div W16) + W16) \div (2 * W16)) + min

\* ---- JavaScript values ----------------------------------------------------
\* A value carries its type tag t.  A finite number holds v, its value in
\* units of 1/NumScale, so that fractional scores can be represented.

NumScale == 2

Undefined == [t |-> "undefined"]

Null == [t |-> "null"]

NaN == [t |-> "NaN"]

PosInfinity == [t |-> "+Infinity"]

NegInfinity == [t |-> "-Infinity"]

Bool(b) == [t |-> "boolean", v |-> b]

Num(n) == [t |-> "number", v |-> n]

JsInt(n) == Num(n * NumScale)

Str(s) == [t |-> "string", v |-> s]

Arr(q) == [t |-> "array", v |-> q]

Obj(f) == [t |-> "object", v |-> f]

EmptyObject == Obj([k \in {} |-> Undefined])

\* value.key for the keys the server reads (none is a member of a prototype):
\* a TypeError on null and undefined, the own property of an object, and
\* undefined on everything else
IsNullish(x) == x.t \in {"undefined", "null"}

Get(x, key) ==
  IF x.t = "object" /\ key \in DOMAIN x.v THEN x.v[key] ELSE Undefined

\* the falsy values of `||` and `!`
Falsy(x) ==
  \/ x.t \in {"undefined", "null", "NaN"}
  \/ x.t = "boolean" /\ x.v = FALSE
  \/ x.t = "number" /\ x.v = 0
  \/ x.t = "string" /\ x.v = ""

OrElse(x, y) == IF Falsy(x) THEN y ELSE x

\* x || y where the code has x ?? y
CoalesceFalsy(x, y) == IF Falsy(x) THEN y ELSE x

\* x ?? y
Coalesce(x, y) == IF IsNullish(x) THEN y ELSE x

IsArray(x) == x.t = "array"

\* StringToNumber on the string literals of the model
StringNumericValue(str) ==
  CASE str = "" -> JsInt(0)
    [] str = "72" -> JsInt(72)
    [] str = "140" -> JsInt(140)
    [] str = "-3" -> JsInt(0 - 3)
    [] OTHER -> NaN

\* Number(value)
Number(value) ==
  CASE value.t = "undefined" -> NaN
    [] value.t = "null" -> JsInt(0)
    [] value.t = "boolean" -> IF value.v THEN JsInt(1) ELSE JsInt(0)
    [] value.t \in {"number", "NaN", "+Infinity", "-Infinity"} -> value
    [] value.t = "string" -> StringNumericValue(value.v)
    [] value.t = "array" ->
         IF Len(value.v) = 0 THEN JsInt(0)
         ELSE IF Len(value.v) > 1 THEN NaN
         ELSE IF IsNullish(value.v[1]) THEN JsInt(0)
         ELSE IF value.v[1].t = "string" THEN StringNumericValue(value.v[1].v)
         ELSE IF value.v[1].t = "number" THEN value.v[1]
         ELSE NaN
    [] OTHER -> NaN

\* Math.round(n / d) for integers n and d > 0: floor(n / d + 1/2)
RoundRatio(n, d) == ((2 * n) + d) \div (2 * d)

\* Math.round of a finite number given in units of 1/NumScale
MathRound(v) == RoundRatio(v, NumScale)

\* clampScore taking its argument for a fraction of 1
clampScoreOfFraction(value) ==
  LET num == Number(value)
  IN  IF num.t # "number" THEN JsInt(50)
      ELSE IF num.v < 0 THEN JsInt(0)
      ELSE IF num.v > NumScale THEN JsInt(100)
      ELSE JsInt(MathRound(num.v * 100))

\* the server's clampScore
clampScore(value) ==
  LET num == Number(value)
  IN  IF num.t # "number" THEN JsInt(50)
      ELSE IF num.v < 0 THEN JsInt(0)
      ELSE IF num.v > 100 * NumScale THEN JsInt(100)
      ELSE JsInt(MathRound(num.v))

\* the browser script's clampScore: a non-finite value gives 0
clampScoreClient(value) ==
  LET num == Number(value)
  IN  IF num.t # "number" THEN JsInt(0)
      ELSE IF num.v < 0 THEN JsInt(0)
      ELSE IF num.v > 100 * NumScale THEN JsInt(100)
      ELSE JsInt(MathRound(num.v))

\* ---- score derivation ---------------------------------------------------

Max3(a, b, c) == IF a >= b /\ a >= c THEN a ELSE IF b >= c THEN b ELSE c

Min3(a, b, c) == IF a <= b /\ a <= c THEN a ELSE IF b <= c THEN b ELSE c

\* x + k for a finite number x and an integer k
Plus(x, k) == Num(x.v + (k * NumScale))

\* generateScores with clarity left as the bare average plus jitter, neither
\* rounded nor clamped
generateScoresUnrounded(rng) ==
  LET base == randomBetween(Draw(rng, 1), 35, 82)
      confidence == clampScore(JsInt(base + randomBetween(Draw(rng, 2), 0 - 5, 5)))
      pushiness == clampScore(Plus(confidence, randomBetween(Draw(rng, 3), 0 - 6, 6)))
      clarity == Plus(Num((confidence.v + pushiness.v) \div 2),
                      randomBetween(Draw(rng, 4), 0 - 4, 4))
  IN  [scores |-> [confidence |-> confidence, pushiness |-> pushiness, clarity |-> clarity],
       rng |-> Skip(rng, 4)]

\* generateScores with base drawn from 0..100
generateScoresAnyBase(rng) ==
  LET base == randomBetween(Draw(rng, 1), 0, 100)
      confidence == clampScore(JsInt(base + randomBetween(Draw(rng, 2), 0 - 5, 5)))
      pushiness == clampScore(Plus(confidence, randomBetween(Draw(rng, 3), 0 - 6, 6)))
      clarity == clampScore(JsInt(RoundRatio(confidence.v + pushiness.v, 2 * NumScale)
                                  + randomBetween(Draw(rng, 4), 0 - 4, 4)))
  IN  [scores |-> [confidence |-> confidence, pushiness |-> pushiness, clarity |-> clarity],
       rng |-> Skip(rng, 4)]

\* generateScores with pushiness drawn 16 either side of confidence and the
\* smoothing pass left out
generateScoresUnsmoothed(rng) ==
  LET base == randomBetween(Draw(rng, 1), 35, 82)
      confidence == clampScore(JsInt(base + randomBetween(Draw(rng, 2), 0 - 5, 5)))
      pushiness == clampScore(Plus(confidence, randomBetween(Draw(rng, 3), 0 - 16, 16)))
      clarity == clampScore(JsInt(RoundRatio(confidence.v + pushiness.v, 2 * NumScale)
                                  + randomBetween(Draw(rng, 4), 0 - 4, 4)))
  IN  [scores |-> [confidence |-> confidence, pushiness |-> pushiness, clarity |-> clarity],
       rng |-> Skip(rng, 4)]

\* the scores are numbers (units of 1/NumScale); rng.i grows by one per draw
generateScores(rng) ==
  LET base == randomBetween(Draw(rng, 1), 35, 82)
      confidence == clampScore(JsInt(base + randomBetween(Draw(rng, 2), 0 - 5, 5)))
      pushiness == clampScore(Plus(confidence, randomBetween(Draw(rng, 3), 0 - 6, 6)))
      clarity == clampScore(JsInt(RoundRatio(confidence.v + pushiness.v, 2 * NumScale)
                                  + randomBetween(Draw(rng, 4), 0 - 4, 4)))
      spread == Max3(confidence.v, pushiness.v, clarity.v)
                  - Min3(confidence.v, pushiness.v, clarity.v)
      average == RoundRatio(confidence.v + pushiness.v + clarity.v, 3 * NumScale)
  IN  IF spread > 10 * NumScale
      THEN [scores |->
              [confidence |-> clampScore(JsInt(average + randomBetween(Draw(rng, 5), 0 - 4, 4))),
               pushiness |-> clampScore(JsInt(average + randomBetween(Draw(rng, 6), 0 - 4, 4))),
               clarity |-> clampScore(JsInt(average + randomBetween(Draw(rng, 7), 0 - 4, 4)))],
            rng |-> Skip(rng, 7)]
      ELSE [scores |-> [confidence |-> confidence, pushiness |-> pushiness, clarity |-> clarity],
            rng |-> Skip(rng, 4)]

\* ---- builder guidance ---------------------------------------------------

KnownBuilders ==
  {"No builder", "Bubble", "Base44", "Webflow", "Glide", "Retool", "Softr",
   "FlutterFlow", "Adalo"}

\* names every object literal inherits from Object.prototype
ObjectPrototypeKeys ==
  {"constructor", "__proto__", "hasOwnProperty", "isPrototypeOf",
   "propertyIsEnumerable", "toLocaleString", "toString", "valueOf",
   "__defineGetter__", "__defineSetter__", "__lookupGetter__", "__lookupSetter__"}

CardLabel(key) == IF key = "No builder" THEN "No builder specified" ELSE key

CardTips(key) ==
  IF key \in {"No builder", "Adalo"} THEN <<<<key, 1>>, <<key, 2>>>>
  ELSE <<<<key, 1>>, <<key, 2>>, <<key, 3>>>>

\* cards[builder] || fallback: the own entry of the table, else the member
\* the table inherits under that name (a truthy function or object without
\* label and tips), else the generic profile
getBuilderGuidance(builder) ==
  IF builder \in KnownBuilders
  THEN [kind |-> "card", key |-> builder, hasLabel |-> TRUE,
        label |-> CardLabel(builder), tips |-> CardTips(builder)]
  ELSE IF builder \in ObjectPrototypeKeys
  THEN [kind |-> "inherited", key |-> builder, hasLabel |-> FALSE,
        label |-> "undefined", tips |-> <<>>]
  ELSE [kind |-> "fallback", key |-> "", hasLabel |-> TRUE,
        label |-> builder, tips |-> <<<<"fallback", 1>>, <<"fallback", 2>>>>]

friendlyBuilderName(guidance) ==
  IF guidance.hasLabel /\ guidance.label = "No builder specified"
  THEN "your stack" ELSE guidance.label

\* ---- template library ---------------------------------------------------
\* A text is the template it comes from and what stands in its {{builder}}
\* placeholder: "" when the template has none, "{{builder}}" while it is not
\* substituted, the builder name afterwards.

Text(pool, g, v, f, slot) ==
  [tpl |-> [pool |-> pool, g |-> g, v |-> v, f |-> f],
   builder |-> IF slot THEN "{{builder}}" ELSE ""]

substituteBuilder(text, guidance) ==
  IF text.builder = "{{builder}}"
  THEN [text EXCEPT !.builder = friendlyBuilderName(guidance)]
  ELSE text

FlagVariant(g, v) ==
  [title |-> Text("flag", g, v, "title", FALSE),
   detail |-> Text("flag", g, v, "detail", FALSE),
   evidence |-> Text("flag", g, v, "evidence", TRUE)]

FlagCondition(g, scores) ==
  CASE g = 1 -> scores.confidence.v < 55 * NumScale
    [] g = 2 -> scores.clarity.v < 52 * NumScale
    [] g = 3 -> scores.pushiness.v > 60 * NumScale
    [] OTHER -> TRUE

FLAG_RULES == [g \in 1..4 |-> [v \in 1..13 |-> FlagVariant(g, v)]]

RewriteBeforeSlots == {}

RewriteAfterSlots ==
  {<<1, 1>>, <<1, 2>>, <<1, 4>>, <<1, 6>>, <<2, 2>>, <<2, 3>>, <<2, 4>>, <<2, 7>>}

RewriteVariant(g, v) ==
  [before |-> Text("rewrite", g, v, "before", <<g, v>> \in RewriteBeforeSlots),
   after |-> Text("rewrite", g, v, "after", <<g, v>> \in RewriteAfterSlots),
   rationale |-> Text("rewrite", g, v, "rationale", FALSE)]

\* the conditions of REWRITE_RULES with the last rule's () => true lost
RewriteConditionNoCatchAll(g, scores) ==
  CASE g = 1 -> scores.confidence.v < 55 * NumScale
    [] g = 2 -> scores.clarity.v < 52 * NumScale
    [] OTHER -> FALSE

RewriteCondition(g, scores) ==
  CASE g = 1 -> scores.confidence.v < 55 * NumScale
    [] g = 2 -> scores.clarity.v < 52 * NumScale
    [] OTHER -> TRUE

REWRITE_RULES == [g \in 1..3 |-> [v \in 1..8 |-> RewriteVariant(g, v)]]

\* the array literals the three module-level libraries are initialised with
LockedInsightsLiteral ==
  [v \in 1..16 |-> [title |-> Text("locked", 0, v, "title", FALSE),
                    summary |-> Text("locked", 0, v, "summary", FALSE)]]

BUILDER_AREAS == 10

BUILDER_VERBS == 6

BUILDER_DIRECTIVES == 10

\* BUILDER_POINTERS after the three nested for loops: one closure is pushed
\* for each (area, verb, directive), the directive varying fastest
RECURSIVE pushDirectives(_, _, _)
pushDirectives(area, verb, d) ==
  IF d = 0 THEN <<>>
  ELSE Append(pushDirectives(area, verb, d - 1),
              [area |-> area, verb |-> verb, directive |-> d])

RECURSIVE pushVerbs(_, _)
pushVerbs(area, v) ==
  IF v = 0 THEN <<>>
  ELSE pushVerbs(area, v - 1) \o pushDirectives(area, v, BUILDER_DIRECTIVES)

RECURSIVE pushAreas(_)
pushAreas(a) ==
  IF a = 0 THEN <<>>
  ELSE pushAreas(a - 1) \o pushVerbs(a, BUILDER_VERBS)

BUILDER_POINTERS == pushAreas(BUILDER_AREAS)

\* variant(guidance) for a closure of BUILDER_POINTERS; name is
\* friendlyBuilderName(guidance)
BuilderPointer(variant, name) ==
  [title |-> [tpl |-> [pool |-> "pointer", g |-> variant.area, v |-> variant.verb,
                       f |-> "title"],
              builder |-> ""],
   detail |-> [tpl |-> [pool |-> "pointer",
                        g |-> ((variant.area - 1) * BUILDER_VERBS) + variant.verb,
                        v |-> variant.directive, f |-> "detail"],
               builder |-> name]]

ExperimentSlots == {1, 3, 13}

ExperimentLibLiteral ==
  [v \in 1..19 |-> Text("experiment", 0, v, "", v \in ExperimentSlots)]

ChecklistLibLiteral == [v \in 1..20 |-> Text("checklist", 0, v, "", FALSE)]

\* ---- sampling -----------------------------------------------------------

RemoveAt(q, i) == SubSeq(q, 1, i - 1) \o SubSeq(q, i + 1, Len(q))

\* the loop without its `copy.length` test: splice of an empty array pushes
\* undefined
RECURSIVE pickLoopUnguarded(_, _, _, _)
pickLoopUnguarded(copy, result, rng, count) ==
  IF Len(result) < count
  THEN LET index == floorMul(Draw(rng, 1), Len(copy))
       IN  IF Len(copy) = 0
           THEN pickLoopUnguarded(copy, Append(result, Undefined), Skip(rng, 1), count)
           ELSE pickLoopUnguarded(RemoveAt(copy, index + 1),
                                  Append(result, copy[index + 1]), Skip(rng, 1), count)
  ELSE [result |-> result, copy |-> copy, rng |-> rng]

\* the while loop of pickDistinct: copy.splice(index, 1)[0] is pushed
RECURSIVE pickLoop(_, _, _, _)
pickLoop(copy, result, rng, count) ==
  IF Len(result) < count /\ Len(copy) > 0
  THEN LET index == floorMul(Draw(rng, 1), Len(copy))
       IN  pickLoop(RemoveAt(copy, index + 1), Append(result, copy[index + 1]),
                    Skip(rng, 1), count)
  ELSE [result |-> result, copy |-> copy, rng |-> rng]

\* pickDistinct splicing its argument instead of a copy of it
pickDistinctInPlace(pool, rng, count) ==
  LET done == pickLoop(pool \o <<>>, <<>>, rng, count)
  IN  [result |-> done.result, pool |-> done.copy, rng |-> done.rng]

\* result: the returned array; pool: the caller's array after the call (the
\* loop splices the spread copy, not the argument); rng: the rng afterwards
pickDistinct(pool, rng, count) ==
  LET copy == pool \o <<>>
      done == pickLoop(copy, <<>>, rng, count)
  IN  [result |-> done.result, pool |-> pool, rng |-> done.rng]

\* randomFrom with Math.round in place of Math.floor
randomFromRounded(pool, rng) ==
  LET index == randomBetween(Draw(rng, 1), 0, Len(pool))
  IN  [defined |-> index + 1 <= Len(pool),
       value |-> IF index + 1 <= Len(pool) THEN pool[index + 1] ELSE <<>>,
       rng |-> Skip(rng, 1)]

\* pool[Math.floor(rng() * pool.length)], undefined on the empty pool
randomFrom(pool, rng) ==
  LET index == floorMul(Draw(rng, 1), Len(pool))
  IN  [defined |-> index + 1 <= Len(pool),
       value |-> IF index + 1 <= Len(pool) THEN pool[index + 1] ELSE <<>>,
       rng |-> Skip(rng, 1)]

\* rules.filter(condition).map(variants).flat(), rules g..Len(rules)
RECURSIVE FlatVariants(_, _, _)
FlatVariants(rules, holds, g) ==
  IF g > Len(rules) THEN <<>>
  ELSE (IF g \in holds THEN rules[g] ELSE <<>>) \o FlatVariants(rules, holds, g + 1)

\* ---- the variant selector -----------------------------------------------

\* buildFlags drawing from the variants of every rule, whatever the scores
buildFlagsFromAllRules(scores, guidance, rng) ==
  LET pool == FlatVariants(FLAG_RULES, 1..Len(FLAG_RULES), 1)
      picked == pickDistinct(pool, rng, 3)
  IN  [value |-> [i \in 1..Len(picked.result) |->
                    [title |-> picked.result[i].title,
                     detail |-> substituteBuilder(picked.result[i].detail, guidance),
                     evidence |-> substituteBuilder(picked.result[i].evidence, guidance)]],
       threw |-> FALSE,
       rng |-> picked.rng]

buildFlags(scores, guidance, rng) ==
  LET pools == FlatVariants(FLAG_RULES, {g \in 1..Len(FLAG_RULES) : FlagCondition(g, scores)}, 1)
      pool == IF Len(pools) > 0 THEN pools
              ELSE FlatVariants(FLAG_RULES, 1..Len(FLAG_RULES), 1)
      picked == pickDistinct(pool, rng, 3)
  IN  [value |-> [i \in 1..Len(picked.result) |->
                    [title |-> picked.result[i].title,
                     detail |-> substituteBuilder(picked.result[i].detail, guidance),
                     evidence |-> substituteBuilder(picked.result[i].evidence, guidance)]],
       threw |-> FALSE,
       rng |-> picked.rng]

\* variant.before of an undefined variant is a TypeError
buildRewrite(scores, guidance, rng) ==
  LET pools == FlatVariants(REWRITE_RULES,
                            {g \in 1..Len(REWRITE_RULES) : RewriteCondition(g, scores)}, 1)
      pool == IF Len(pools) > 0 THEN pools
              ELSE FlatVariants(REWRITE_RULES, 1..Len(REWRITE_RULES), 1)
      variant == randomFrom(pool, rng)
  IN  IF ~variant.defined
      THEN [value |-> <<>>, threw |-> TRUE, rng |-> variant.rng]
      ELSE [value |-> [before |-> substituteBuilder(variant.value.before, guidance),
                       after |-> substituteBuilder(variant.value.after, guidance),
                       rationale |-> variant.value.rationale],
            threw |-> FALSE,
            rng |-> variant.rng]

buildLockedInsights(guidance, rng) ==
  LET picked == pickDistinct(LOCKED_INSIGHTS, rng, 3)
  IN  [value |-> [i \in 1..Len(picked.result) |->
                    [title |-> substituteBuilder(picked.result[i].title, guidance),
                     summary |-> substituteBuilder(picked.result[i].summary, guidance)]],
       lib |-> picked.pool,
       rng |-> picked.rng]

\* buildBuilderPointers naming the builder by guidance.label instead of
\* friendlyBuilderName(guidance)
buildBuilderPointersByLabel(guidance, rng) ==
  LET mapped == [n \in 1..Len(BUILDER_POINTERS) |->
                   BuilderPointer(BUILDER_POINTERS[n], guidance.label)]
      picked == pickDistinct(mapped, rng, 2)
  IN  [value |-> picked.result, rng |-> picked.rng]

buildBuilderPointers(guidance, rng) ==
  LET name == friendlyBuilderName(guidance)
      mapped == [n \in 1..Len(BUILDER_POINTERS) |-> BuilderPointer(BUILDER_POINTERS[n], name)]
      picked == pickDistinct(mapped, rng, 2)
  IN  [value |-> picked.result, rng |-> picked.rng]

buildExperiments(guidance, rng) ==
  LET picked == pickDistinct(EXPERIMENT_LIB, rng, 3)
  IN  [value |-> [i \in 1..Len(picked.result) |-> substituteBuilder(picked.result[i], guidance)],
       lib |-> picked.pool,
       rng |-> picked.rng]

buildChecklist(guidance, rng) ==
  LET picked == pickDistinct(CHECKLIST_LIB, rng, 3)
  IN  [value |-> [i \in 1..Len(picked.result) |-> substituteBuilder(picked.result[i], guidance)],
       lib |-> picked.pool,
       rng |-> picked.rng]

\* the seed handed to mulberry32
variantSeed(seed) == (seed * 9973) + 17

\* The properties of the object literal buildVariantFromSeed returns are
\* evaluated in source order, each continuing the rng of the one before.  v is
\* the evaluation so far: the properties computed, the rng, whether a property
\* threw, and the three libraries as the calls left them.
flagsProperty(v) ==
  LET out == buildFlags(v.scores, v.guidance, v.rng)
  IN  [v EXCEPT !.flags = out.value, !.rng = out.rng]

freeRewriteProperty(v) ==
  LET out == buildRewrite(v.scores, v.guidance, v.rng)
  IN  [v EXCEPT !.freeRewrite = out.value, !.threw = out.threw, !.rng = out.rng]

lockedInsightsProperty(v) ==
  LET out == buildLockedInsights(v.guidance, v.rng)
  IN  [v EXCEPT !.lockedInsights = out.value, !.locked = out.lib, !.rng = out.rng]

builderActionsProperty(v) ==
  LET out == buildBuilderPointers(v.guidance, v.rng)
  IN  [v EXCEPT !.builderActions = out.value, !.rng = out.rng]

experimentsProperty(v) ==
  LET out == buildExperiments(v.guidance, v.rng)
  IN  [v EXCEPT !.experiments = out.value, !.experimentLib = out.lib, !.rng = out.rng]

checklistProperty(v) ==
  LET out == buildChecklist(v.guidance, v.rng)
  IN  [v EXCEPT !.checklist = out.value, !.checklistLib = out.lib, !.rng = out.rng]

\* the first three statements of buildVariantFromSeed
variantStart(scored, guidance) ==
  [scores |-> scored.scores, guidance |-> guidance, rng |-> scored.rng, threw |-> FALSE,
   flags |-> <<>>, freeRewrite |-> <<>>, lockedInsights |-> <<>>, builderActions |-> <<>>,
   experiments |-> <<>>, checklist |-> <<>>,
   locked |-> LOCKED_INSIGHTS, experimentLib |-> EXPERIMENT_LIB, checklistLib |-> CHECKLIST_LIB]

\* the returned object with a shorter checklist for the low-tech tone
variantReturnByTone(v, tone, builder) ==
  [card |-> [threw |-> FALSE,
             builder |-> builder,
             tone |-> tone,
             scores |-> v.scores,
             flags |-> v.flags,
             freeRewrite |-> v.freeRewrite,
             lockedInsights |-> v.lockedInsights,
             builderActions |-> v.builderActions,
             experiments |-> v.experiments,
             checklist |-> IF tone = "low-tech" THEN SubSeq(v.checklist, 1, 2) ELSE v.checklist,
             metadata |-> EmptyObject],
   locked |-> v.locked,
   experiments |-> v.experimentLib,
   checklist |-> v.checklistLib]

\* the returned object, or the TypeError of buildRewrite, which ends the
\* evaluation before any library is read
variantReturn(v, tone, builder) ==
  IF v.threw
  THEN [card |-> [threw |-> TRUE, error |-> "TypeError"],
        locked |-> LOCKED_INSIGHTS,
        experiments |-> EXPERIMENT_LIB,
        checklist |-> CHECKLIST_LIB]
  ELSE [card |-> [threw |-> FALSE,
                  builder |-> builder,
                  tone |-> tone,
                  scores |-> v.scores,
                  flags |-> v.flags,
                  freeRewrite |-> v.freeRewrite,
                  lockedInsights |-> v.lockedInsights,
                  builderActions |-> v.builderActions,
                  experiments |-> v.experiments,
                  checklist |-> v.checklist,
                  metadata |-> EmptyObject],
        locked |-> v.locked,
        experiments |-> v.experimentLib,
        checklist |-> v.checklistLib]

\* buildVariantFromSeed, as the Scorecard it returns (card) and the three
\* libraries as the call leaves them
buildVariantFromSeed(seed, tone, builder) ==
  variantReturn(
    checklistProperty(experimentsProperty(builderActionsProperty(
      lockedInsightsProperty(freeRewriteProperty(flagsProperty(
        variantStart(generateScores(mulberry32(variantSeed(seed))),
                     getBuilderGuidance(builder)))))))),
    tone, builder)

\* ---- normalizers ----------------------------------------------------------
\* A function that can throw returns [threw |-> TRUE, error |-> ...] or
\* [threw |-> FALSE, value |-> ...].

TypeError == [threw |-> TRUE, error |-> "TypeError"]

Returns(value) == [threw |-> FALSE, value |-> value]

\* JSON.parse on the texts of the model
JSONParse(text) ==
  CASE text = "{}" -> Returns(EmptyObject)
    [] text = "[]" -> Returns(Arr(<<>>))
    [] text = "null" -> Returns(Null)
    [] text = "42" -> Returns(JsInt(42))
    [] text = "{\"scores\":{\"confidence\":140}}" ->
         Returns(Obj([scores |-> Obj([confidence |-> JsInt(140)])]))
    [] OTHER -> [threw |-> TRUE, error |-> "SyntaxError"]

\* JSON.parse outside any try block
safeJsonParseUncaught(value) == JSONParse(value)

\* try { return JSON.parse(value) } catch { return null }
safeJsonParse(value) ==
  IF JSONParse(value).threw THEN Returns(Null) ELSE JSONParse(value)

\* typeof x === 'object'
TypeofObject(x) == x.t \in {"null", "array", "object"}

\* JSON.stringify on the elements of the model's arrays
JSONStringify(x) ==
  CASE x.t = "null" -> Str("null")
    [] x.t = "string" -> Str("\"" \o x.v \o "\"")
    [] x = EmptyObject -> Str("{}")
    [] x.t = "array" /\ Len(x.v) = 0 -> Str("[]")
    [] x.t = "undefined" -> Undefined
    [] OTHER -> Str("{...}")

\* reading a property of some element of the array throws
AnyNullish(q) == \E i \in 1..Len(q) : IsNullish(q[i])

\* array.slice(0, n)
SliceTo(q, n) == SubSeq(q, 1, IF Len(q) < n THEN Len(q) ELSE n)

\* Array.isArray(x) ? x : []
ArrayOrEmpty(x) == IF IsArray(x) THEN x.v ELSE <<>>

FallbackFlags ==
  << [title |-> Str("Unclear promise"),
      detail |-> Str("Hero copy mixes multiple outcomes, making it unclear what happens next."),
      evidence |-> Str("Headline and subheadline should focus on a single transformation and CTA.")],
     [title |-> Str("Missing proof"),
      detail |-> Str("Trust anchors are buried, forcing visitors to guess whether you deliver."),
      evidence |-> Str("Add quantified outcomes or testimonial snippets above the fold.")],
     [title |-> Str("CTA uncertainty"),
      detail |-> Str("Button text does not explain what happens after clicking."),
      evidence |-> Str("Clarify the next step (e.g., 'Start a 7-day guided trial').")] >>

FallbackLockedInsights ==
  << [title |-> Str("Pricing page teardown"),
      summary |-> Str("Breaks down the friction points across tiers and proposes a simplified layout.")],
     [title |-> Str("Trust signal roadmap"),
      summary |-> Str("Recommends proof anchors, testimonial placement, and social validation steps.")],
     [title |-> Str("Conversion experiment kit"),
      summary |-> Str("Outlines three experiments with metrics, setup, and sample copy.")] >>

fallbackScorecard(tone, builder) ==
  LET guidance == getBuilderGuidance(builder)
      tipList == SliceTo(guidance.tips, 2)
  IN  [builder |-> builder,
       tone |-> tone,
       scores |-> [confidence |-> JsInt(55), pushiness |-> JsInt(45), clarity |-> JsInt(60)],
       flags |-> FallbackFlags,
       freeRewrite |->
         [before |-> Str("All-in-one platform that does everything for everyone."),
          after |-> Str("Launch high-converting demos in " \o guidance.label
                        \o " tailored to your buyers in under 48 hours."),
          rationale |-> Str("Sharpen the promise to a specific audience and timeframe.")],
       lockedInsights |-> FallbackLockedInsights,
       builderActions |->
         [idx \in 1..Len(tipList) |->
            [title |-> IF idx = 1 THEN Str("Start in " \o guidance.label)
                       ELSE Str("Polish with design tokens"),
             detail |-> tipList[idx]]],
       experiments |-> <<Str("Run a before/after usability test focusing on first-click success.")>>,
       checklist |-> <<Str("Verify mobile spacing in hero section."),
                       Str("Add success metrics near primary CTA.")>>,
       metadata |-> EmptyObject]

\* the body of normalizeScorecardResponse once the payload is a truthy object
normalizeParsed(parsed, tone, builder) ==
  LET scores == OrElse(Get(parsed, "scores"), EmptyObject)
      flags == SliceTo(ArrayOrEmpty(Get(parsed, "flags")), 3)
      freeRewrite == OrElse(Get(parsed, "free_rewrite"), EmptyObject)
      lockedItems == ArrayOrEmpty(Get(parsed, "locked_items"))
      metadata == OrElse(Get(parsed, "metadata"), EmptyObject)
      builderActions ==
        IF IsArray(Get(metadata, "builder_actions")) THEN Get(metadata, "builder_actions").v
        ELSE ArrayOrEmpty(Get(metadata, "builderSteps"))
      experiments == ArrayOrEmpty(Get(metadata, "experiments"))
      checklist == ArrayOrEmpty(Get(metadata, "checklist"))
      score(key, default) ==
        clampScore(Coalesce(Coalesce(Get(scores, key), Get(metadata, key)), JsInt(default)))
  IN  IF AnyNullish(flags) \/ AnyNullish(lockedItems) \/ AnyNullish(builderActions)
      THEN TypeError
      ELSE Returns(
        [builder |-> builder,
         tone |-> tone,
         scores |-> [confidence |-> score("confidence", 52),
                     pushiness |-> score("pushiness", 58),
                     clarity |-> score("clarity", 60)],
         flags |->
           [i \in 1..Len(flags) |->
              [title |-> OrElse(Get(flags[i], "title"), Str("Issue")),
               detail |-> OrElse(Get(flags[i], "detail"), Str("Needs clarification.")),
               evidence |-> OrElse(Get(flags[i], "evidence"),
                                   OrElse(Get(flags[i], "quote"), Str("No evidence provided.")))]],
         freeRewrite |->
           [before |-> OrElse(Get(freeRewrite, "before"), Str("Original copy unavailable.")),
            after |-> OrElse(Get(freeRewrite, "after"), Str("Rewrite unavailable.")),
            rationale |-> OrElse(Get(freeRewrite, "rationale"),
                                 Str("Refine your messaging for clarity and trust."))],
         lockedInsights |->
           [i \in 1..Len(lockedItems) |->
              [title |-> OrElse(Get(lockedItems[i], "title"), Str("Additional insight")),
               summary |-> OrElse(Get(lockedItems[i], "summary"),
                                  Str("Unlock the full plan to view this insight."))]],
         builderActions |->
           [idx \in 1..Len(builderActions) |->
              [title |-> OrElse(Get(builderActions[idx], "title"),
                                Str("Builder action " \o ToString(idx))),
               detail |-> OrElse(Get(builderActions[idx], "detail"),
                                 OrElse(Get(builderActions[idx], "summary"),
                                        Str("See builder guidance in the knowledge base.")))]],
         experiments |-> experiments,
         checklist |-> checklist,
         metadata |-> metadata])

normalizeScorecardResponse(payload, tone, builder) ==
  LET parsed == IF payload.t = "string" THEN safeJsonParse(payload.v) ELSE Returns(payload)
  IN  IF parsed.threw THEN parsed
      ELSE IF Falsy(parsed.value) \/ ~TypeofObject(parsed.value)
      THEN Returns(fallbackScorecard(tone, builder))
      ELSE normalizeParsed(parsed.value, tone, builder)

\* buildId is the value crypto.randomUUID() returned
normalizeBuildPlan(structured, builder, buildId) ==
  IF IsNullish(structured) THEN TypeError
  ELSE
    LET screens == ArrayOrEmpty(Get(structured, "screens"))
        flows == ArrayOrEmpty(Get(structured, "flows"))
        dataModel == ArrayOrEmpty(Get(structured, "data_model"))
        builderSteps == ArrayOrEmpty(Get(structured, "builder_steps"))
        nextSteps == ArrayOrEmpty(Get(structured, "next_steps"))
    IN  IF AnyNullish(screens) \/ AnyNullish(flows) \/ AnyNullish(dataModel)
           \/ AnyNullish(builderSteps)
        THEN TypeError
        ELSE Returns(
          [buildId |-> buildId,
           builder |-> builder,
           headline |-> OrElse(Get(structured, "headline"), Str("Blueprint for " \o builder)),
           summary |-> OrElse(Get(structured, "summary"), Str("Build plan summary unavailable.")),
           screens |->
             [i \in 1..Len(screens) |->
                [name |-> OrElse(Get(screens[i], "name"), Str("Screen")),
                 goal |-> OrElse(Get(screens[i], "goal"), Str("")),
                 key_elements |-> ArrayOrEmpty(Get(screens[i], "key_elements"))]],
           flows |->
             [i \in 1..Len(flows) |->
                [title |-> OrElse(Get(flows[i], "title"), Str("Flow")),
                 steps |-> ArrayOrEmpty(Get(flows[i], "steps"))]],
           dataModel |->
             [i \in 1..Len(dataModel) |->
                [entity |-> OrElse(Get(dataModel[i], "entity"), Str("Entity")),
                 fields |-> ArrayOrEmpty(Get(dataModel[i], "fields"))]],
           builderSteps |->
             [idx \in 1..Len(builderSteps) |->
                [title |-> OrElse(Get(builderSteps[idx], "title"),
                                  Str("Builder step " \o ToString(idx))),
                 detail |-> OrElse(Get(builderSteps[idx], "detail"),
                                   IF builderSteps[idx].t = "string" THEN builderSteps[idx]
                                   ELSE JSONStringify(builderSteps[idx]))]],
           exportPlan |-> OrElse(Get(structured, "export_plan"), Null),
           nextSteps |-> nextSteps,
           suggestedPrompts |-> ArrayOrEmpty(Get(structured, "suggested_prompts"))])

\* ---- the server process ---------------------------------------------------

\* number of operations of one run
MaxCalls == 3

Tones == {"low-tech", "expert"}

Builders == {"No builder", "Bubble", "Zapier", "constructor"}

None == [set |-> FALSE]

Init ==
  /\ scoreVariantCursor = 0
  /\ LOCKED_INSIGHTS = LockedInsightsLiteral
  /\ EXPERIMENT_LIB = ExperimentLibLiteral
  /\ CHECKLIST_LIB = ChecklistLibLiteral
  /\ input \in [seed : DOMAIN SCORE_VARIANT_SEEDS, tone : Tones, builder : Builders]
  /\ call = [op |-> "none"]
  /\ ret = None
  /\ memo = None
  /\ callerPool = <<>>
  /\ calls = 0
  /\ ServerIdle

\* a direct call buildVariantFromSeed(input.seed, input)
BuildVariantFromSeed ==
  /\ calls < MaxCalls
  /\ LET out == buildVariantFromSeed(input.seed, input.tone, input.builder)
     IN  /\ ret' = out.card
         /\ LOCKED_INSIGHTS' = out.locked
         /\ EXPERIMENT_LIB' = out.experiments
         /\ CHECKLIST_LIB' = out.checklist
         /\ memo' = IF memo.set THEN memo
                    ELSE [set |-> TRUE, card |-> out.card, cursor |-> scoreVariantCursor]
  /\ call' = [op |-> "buildVariantFromSeed", seed |-> input.seed]
  /\ calls' = calls + 1
  /\ UNCHANGED <<scoreVariantCursor, input, callerPool, serverVars>>

\* the cursor wrapping one seed early
advanceCursorShort(cursor) == (cursor + 1) % (Len(SCORE_VARIANT_SEEDS) - 1)

\* (scoreVariantCursor + 1) % SCORE_VARIANT_SEEDS.length
advanceCursor(cursor) == (cursor + 1) % Len(SCORE_VARIANT_SEEDS)

\* generateScorecardVariant({ tone, builder }) of some request, while fewer
\* than limit calls have been made
ServeVariant(limit) ==
  /\ calls < limit
  /\ LET seed == SCORE_VARIANT_SEEDS[scoreVariantCursor + 1]
         out == buildVariantFromSeed(seed, input.tone, input.builder)
     IN  /\ scoreVariantCursor' = advanceCursor(scoreVariantCursor)
         /\ ret' = out.card
         /\ LOCKED_INSIGHTS' = out.locked
         /\ EXPERIMENT_LIB' = out.experiments
         /\ CHECKLIST_LIB' = out.checklist
         /\ call' = [op |-> "generateScorecardVariant", seed |-> seed]
  /\ calls' = calls + 1
  /\ UNCHANGED <<input, memo, callerPool, serverVars>>

GenerateScorecardVariant == ServeVariant(MaxCalls)

Next == BuildVariantFromSeed \/ GenerateScorecardVariant

Spec == Init /\ [][Next]_vars
\* ---- the selector's claims, under Spec ----------------------------------

ScoreKeys == {"confidence", "pushiness", "clarity"}

IsScore(x) == x.t = "number" /\ x.v % NumScale = 0 /\ x.v >= 0 /\ x.v <= 100 * NumScale

\* C1: a call of buildVariantFromSeed with the seed, tone and builder of an
\* earlier call returns the Scorecard the earlier call returned, whatever
\* calls happened in between
SameInputsSameScorecard ==
  (call.op = "buildVariantFromSeed" /\ memo.set) => ret = memo.card

\* a second buildVariantFromSeed(input) after generateScorecardVariant calls
RepeatedAfterOtherCalls ==
  /\ call.op = "buildVariantFromSeed"
  /\ memo.set
  /\ memo.cursor < scoreVariantCursor
  /\ ~ret.threw

DrawGrid == 4

DrawWords == {<<(i * W16) \div DrawGrid, 0>> : i \in 0..(DrawGrid - 1)} \cup {<<W16 - 1, W16 - 1>>}

\* largest pool and largest count handed to pickDistinct
MaxPool == 4

MaxCount == 3

\* a pool of n pairwise distinct items
Items(n) == [i \in 1..n |-> 100 + i]

\* the rng whose successive draws are the given words
StreamRng(draws) == [s |-> draws, i |-> 0]

SamplingInputs ==
  [fn : {"generateScores"}, draws : [1..7 -> DrawWords]]
    \cup [fn : {"pickDistinct"}, pool : {Items(n) : n \in 0..MaxPool},
          count : 0..MaxCount, draws : [1..MaxCount -> DrawWords]]

InitSampling ==
  /\ scoreVariantCursor = 0
  /\ LOCKED_INSIGHTS = LockedInsightsLiteral
  /\ EXPERIMENT_LIB = ExperimentLibLiteral
  /\ CHECKLIST_LIB = ChecklistLibLiteral
  /\ input \in SamplingInputs
  /\ call = [op |-> "none"]
  /\ ret = None
  /\ memo = None
  /\ callerPool = IF input.fn = "pickDistinct" THEN input.pool ELSE <<>>
  /\ calls = 0
  /\ ServerIdle

GenerateScores ==
  /\ input.fn = "generateScores"
  /\ calls = 0
  /\ ret' = generateScores(StreamRng(input.draws))
  /\ call' = [op |-> "generateScores"]
  /\ calls' = calls + 1
  /\ UNCHANGED <<scoreVariantCursor, LOCKED_INSIGHTS, EXPERIMENT_LIB, CHECKLIST_LIB,
                 input, memo, callerPool, serverVars>>

PickDistinct ==
  /\ input.fn = "pickDistinct"
  /\ calls = 0
  /\ LET out == pickDistinct(callerPool, StreamRng(input.draws), input.count)
     IN  /\ ret' = out
         /\ callerPool' = out.pool
  /\ call' = [op |-> "pickDistinct"]
  /\ calls' = calls + 1
  /\ UNCHANGED <<scoreVariantCursor, LOCKED_INSIGHTS, EXPERIMENT_LIB, CHECKLIST_LIB,
                 input, memo, serverVars>>

NextSampling == GenerateScores \/ PickDistinct

SpecSampling == InitSampling /\ [][NextSampling]_vars

\* C2: whatever the draws, generateScores returns three integers in 0..100
ScoresWithinBounds ==
  call.op = "generateScores" =>
    /\ DOMAIN ret.scores = ScoreKeys
    /\ \A k \in ScoreKeys : IsScore(ret.scores[k])

\* the largest draws give the largest scores the derivation can produce
LargestScoresDerived ==
  /\ call.op = "generateScores"
  /\ ret.scores.confidence = JsInt(87)
  /\ ret.scores.pushiness = JsInt(93)
  /\ ret.scores.clarity = JsInt(94)

\* C6: from a pool of n distinct items and a count k <= n, pickDistinct
\* returns k pairwise distinct members of the pool and leaves the pool as it was
PickDistinctSamplesWithoutReplacement ==
  (call.op = "pickDistinct" /\ input.count <= Len(input.pool)) =>
    /\ Len(ret.result) = input.count
    /\ \A i, j \in 1..Len(ret.result) : i # j => ret.result[i] # ret.result[j]
    /\ \A i \in 1..Len(ret.result) : \E j \in 1..Len(input.pool) : ret.result[i] = input.pool[j]
    /\ callerPool = input.pool

\* several items were picked from a larger pool
PickedFromLargerPool ==
  /\ call.op = "pickDistinct"
  /\ input.count >= 2
  /\ Len(input.pool) > input.count
  /\ Len(ret.result) = input.count

\* C7: asked for more items than the pool holds, pickDistinct returns the
\* whole pool's worth of items, n of them
PickDistinctShortPool ==
  (call.op = "pickDistinct" /\ Len(input.pool) < input.count) =>
    Len(ret.result) = Len(input.pool)

\* the empty pool was asked for items
EmptyPoolAsked ==
  /\ call.op = "pickDistinct"
  /\ Len(input.pool) = 0
  /\ input.count > 0
  /\ Len(ret.result) = 0

\* ---- normalizers and resolvers over bounded inputs --------------------------

\* marks a property the payload does not have
Absent == [t |-> "absent"]

\* the object with the properties of the record f that are not Absent
MakeObj(f) == Obj([k \in {key \in DOMAIN f : f[key] # Absent} |-> f[k]])

\* finite numbers reach MaxOver below 0 and MaxOver above 100
MaxOver == 2

FiniteNumbers == {Num(v) : v \in (0 - (MaxOver * NumScale))..((100 + MaxOver) * NumScale)}

ScoreValues ==
  FiniteNumbers \cup
    {Undefined, Null, NaN, PosInfinity, NegInfinity, Bool(TRUE), Bool(FALSE),
     Str(""), Str("72"), Str("140"), Str("-3"), Str("abc"), Arr(<<>>), EmptyObject}

MetadataScores == {Absent, Null, NaN, JsInt(140), JsInt(7)}

\* arrays whose elements are null, bare strings, empty or partial objects
ElementArrays ==
  {Arr(<<>>), Arr(<<Null>>), Arr(<<Str("bare")>>), Arr(<<EmptyObject>>),
   Arr(<<Obj([title |-> Str("T")]), Str("bare")>>)}

ScorecardPayloads ==
  {MakeObj(f) : f \in
     [scores : {Absent, Null, Str("x"), EmptyObject},
      flags : {Absent, Null, Str("x")} \cup ElementArrays,
      free_rewrite : {Absent, Null, JsInt(3), Obj([before |-> Str("B")])},
      locked_items : {Absent, EmptyObject} \cup ElementArrays,
      metadata : {Absent, Null, Str("m"), Obj([builder_actions |-> Arr(<<Null>>)]),
                  Obj([builderSteps |-> Arr(<<Str("bare")>>), checklist |-> Arr(<<Null>>)]),
                  Obj([builder_actions |-> Str("x"), experiments |-> Arr(<<Str("E")>>)])}]}

PlainPayloads ==
  {Undefined, Null, Bool(TRUE), JsInt(0), JsInt(42), Arr(<<>>), Arr(<<Null>>),
   Str("not json"), Str(""), Str("{}"), Str("[]"), Str("null"), Str("42"),
   Str("{\"scores\":{\"confidence\":140}}"), Str("{\"scores\":")}

PlanPayloads ==
  {Null, Undefined, Str("plan"), JsInt(42), Arr(<<>>)} \cup
  {MakeObj(f) : f \in
     [headline : {Absent, Null, Str("H")},
      screens : {Absent, Null, Str("x")} \cup ElementArrays,
      flows : {Absent, Arr(<<Null>>), Arr(<<Str("bare")>>),
               Arr(<<Obj([steps |-> Arr(<<Str("s")>>)])>>)},
      data_model : {Absent, Arr(<<Null>>), Arr(<<Obj([fields |-> Str("x")])>>)},
      builder_steps : {Absent, EmptyObject} \cup ElementArrays,
      export_plan : {Absent, Obj([format |-> Str("zip")])},
      next_steps : {Absent, Arr(<<Null>>)},
      suggested_prompts : {Absent, Str("x")}]}

BuilderNames == KnownBuilders \cup ObjectPrototypeKeys \cup {"", "Zapier", "bubble", "Wix"}

UUIDs == {"uuid-a", "uuid-b"}

NormalizerInputs ==
  [fn : {"clampScore"}, impl : {"server", "client"}, value : ScoreValues]
    \cup [fn : {"getBuilderGuidance"}, builder : BuilderNames]
    \cup [fn : {"normalizeScorecardResponse"}, family : {"scores"}, key : ScoreKeys,
          value : ScoreValues \cup {Absent}, meta : MetadataScores,
          tone : {"low-tech"}, builder : {"Bubble"}]
    \cup [fn : {"normalizeScorecardResponse"}, family : {"shape"},
          payload : ScorecardPayloads \cup PlainPayloads, tone : Tones, builder : Builders]
    \cup [fn : {"normalizeBuildPlan"}, structured : PlanPayloads, builder : Builders]

\* the payload handed to normalizeScorecardResponse
PayloadOf(in) ==
  IF in.family = "shape" THEN in.payload
  ELSE MakeObj([scores |-> MakeObj([k \in {in.key} |-> in.value]),
                metadata |-> MakeObj([k \in {in.key} |-> in.meta])])

InitNormalizer ==
  /\ scoreVariantCursor = 0
  /\ LOCKED_INSIGHTS = LockedInsightsLiteral
  /\ EXPERIMENT_LIB = ExperimentLibLiteral
  /\ CHECKLIST_LIB = ChecklistLibLiteral
  /\ input \in NormalizerInputs
  /\ call = [op |-> "none"]
  /\ ret = None
  /\ memo = None
  /\ callerPool = <<>>
  /\ calls = 0
  /\ ServerIdle

Unchanged ==
  UNCHANGED <<scoreVariantCursor, LOCKED_INSIGHTS, EXPERIMENT_LIB, CHECKLIST_LIB, input, memo,
              callerPool, serverVars>>

\* clampScore(x) and clampScore applied to that result
ClampScore ==
  /\ input.fn = "clampScore"
  /\ calls = 0
  /\ ret' = IF input.impl = "server"
            THEN [once |-> clampScore(input.value),
                  twice |-> clampScore(clampScore(input.value))]
            ELSE [once |-> clampScoreClient(input.value),
                  twice |-> clampScoreClient(clampScoreClient(input.value))]
  /\ call' = [op |-> "clampScore"]
  /\ calls' = calls + 1
  /\ Unchanged

GetBuilderGuidance ==
  /\ input.fn = "getBuilderGuidance"
  /\ calls = 0
  /\ ret' = getBuilderGuidance(input.builder)
  /\ call' = [op |-> "getBuilderGuidance"]
  /\ calls' = calls + 1
  /\ Unchanged

NormalizeScorecardResponse ==
  /\ input.fn = "normalizeScorecardResponse"
  /\ calls = 0
  /\ ret' = normalizeScorecardResponse(PayloadOf(input), input.tone, input.builder)
  /\ call' = [op |-> "normalizeScorecardResponse"]
  /\ calls' = calls + 1
  /\ Unchanged

NormalizeBuildPlan ==
  /\ input.fn = "normalizeBuildPlan"
  /\ calls = 0
  /\ \E buildId \in UUIDs :
       ret' = normalizeBuildPlan(input.structured, input.builder, buildId)
  /\ call' = [op |-> "normalizeBuildPlan"]
  /\ calls' = calls + 1
  /\ Unchanged

NextNormalizer ==
  ClampScore \/ GetBuilderGuidance \/ NormalizeScorecardResponse \/ NormalizeBuildPlan

SpecNormalizer == InitNormalizer /\ [][NextNormalizer]_vars

ScorecardFields ==
  {"builder", "tone", "scores", "flags", "freeRewrite", "lockedInsights",
   "builderActions", "experiments", "checklist", "metadata"}

BuildPlanFields ==
  {"buildId", "builder", "headline", "summary", "screens", "flows", "dataModel",
   "builderSteps", "exportPlan", "nextSteps", "suggestedPrompts"}

\* C4: for every malformed or partial payload both normalizers return, without
\* throwing, a value with every field of the Scorecard / BuildPlan shape
NormalizersNeverThrow ==
  /\ (call.op = "normalizeScorecardResponse" /\ input.family = "shape") =>
       /\ ~ret.threw
       /\ DOMAIN ret.value = ScorecardFields
       /\ \A k \in ScoreKeys : IsScore(ret.value.scores[k])
  /\ call.op = "normalizeBuildPlan" =>
       /\ ~ret.threw
       /\ DOMAIN ret.value = BuildPlanFields

ClampScoreIdempotent ==
  call.op = "clampScore" => ret.twice = ret.once

\* a non-finite value has been clamped by the server, once and twice
NonFiniteClamped ==
  /\ call.op = "clampScore"
  /\ input.value \in {NaN, PosInfinity, NegInfinity}
  /\ input.impl = "server"
  /\ ret.once = JsInt(50)
  /\ ret.twice = JsInt(50)

\* the value the payload supplies for the score the input names
Supplied == input.value

IsNumericString(x) == x.t = "string" /\ Number(x).t = "number" /\ x.v # ""

\* the score the normalizer returned for the key the input names
Returned == ret.value.scores[input.key]

ScorePayloadNormalised ==
  /\ call.op = "normalizeScorecardResponse"
  /\ input.family = "scores"
  /\ ~ret.threw

\* C9 as stated: the scores are integers in [0,100]; a value below 0 becomes
\* 0, a value above 100 becomes 100, a non-finite or non-numeric value 50
NonNumericScoresBecomeFifty ==
  ScorePayloadNormalised =>
    /\ \A k \in ScoreKeys : IsScore(ret.value.scores[k])
    /\ (Supplied.t = "number" /\ Supplied.v < 0) => Returned = JsInt(0)
    /\ (Supplied.t = "number" /\ Supplied.v > 100 * NumScale) => Returned = JsInt(100)
    /\ (Supplied.t \in {"NaN", "+Infinity", "-Infinity"}) => Returned = JsInt(50)
    /\ (Supplied.t \in {"null", "boolean", "string", "array", "object"}
          /\ ~IsNumericString(Supplied)) => Returned = JsInt(50)

\* the number a present score value is coerced to
CoercedScore(x) ==
  CASE x.t \in {"number", "NaN", "+Infinity", "-Infinity"} -> x
    [] x.t = "boolean" -> IF x.v THEN JsInt(1) ELSE JsInt(0)
    [] x = Str("") \/ x = Arr(<<>>) -> JsInt(0)
    [] IsNumericString(x) -> Number(x)
    [] OTHER -> NaN

\* the default of each score
DefaultScore(key) ==
  CASE key = "confidence" -> 52 [] key = "pushiness" -> 58 [] key = "clarity" -> 60

\* what a coerced value must come out as
ClampedAs(n, out) ==
  /\ n.t # "number" => out = JsInt(50)
  /\ (n.t = "number" /\ n.v < 0) => out = JsInt(0)
  /\ (n.t = "number" /\ n.v > 100 * NumScale) => out = JsInt(100)
  /\ (n.t = "number" /\ n.v >= 0 /\ n.v <= 100 * NumScale) =>
       /\ 2 * (out.v - n.v) <= NumScale
       /\ 2 * (n.v - out.v) < NumScale

\* C9 amended: the scores are integers in [0,100]; a supplied value is
\* coerced to a number (true 1, false, "" and [] 0, numeric strings their
\* number, other strings and objects NaN) and comes out as 0 below 0, 100
\* above 100, 50 when not finite, else rounded; a null or missing value gives
\* way to the metadata value, and that to the default 52 / 58 / 60
ScoresCoercedThenClamped ==
  ScorePayloadNormalised =>
    /\ \A k \in ScoreKeys : IsScore(ret.value.scores[k])
    /\ \A k \in ScoreKeys \ {input.key} : ret.value.scores[k] = JsInt(DefaultScore(k))
    /\ IF Supplied.t \notin {"absent", "undefined", "null"}
       THEN ClampedAs(CoercedScore(Supplied), Returned)
       ELSE IF input.meta.t \notin {"absent", "null"}
       THEN ClampedAs(CoercedScore(input.meta), Returned)
       ELSE Returned = JsInt(DefaultScore(input.key))

\* the score true came out as 1
BooleanScoreCoerced ==
  /\ ScorePayloadNormalised
  /\ Supplied = Bool(TRUE)
  /\ Returned = JsInt(1)

\* C10: a builder name outside the known-builder table gets the generic
\* profile labelled with the name verbatim, a known builder its table entry
GuidanceResolved ==
  call.op = "getBuilderGuidance" =>
    IF input.builder \in KnownBuilders
    THEN /\ ret.kind = "card"
         /\ ret.key = input.builder
         /\ ret.label = CardLabel(input.builder)
    ELSE /\ ret.kind = "fallback"
         /\ ret.hasLabel
         /\ ret.label = input.builder

\* ---- the seed rotation over a long run of requests ---------------------------

\* calls of generateScorecardVariant in one process: two turns of the pool and one more
MaxRotation == 201

InitRotation ==
  /\ Init
  /\ input.seed = 1
  /\ input.builder \in {"No builder", "Zapier"}

GenerateNextVariant == ServeVariant(MaxRotation)

NextRotation == GenerateNextVariant

SpecRotation == InitRotation /\ [][NextRotation]_vars

\* C11: the n-th call of generateScorecardVariant uses seed ((n - 1) mod 100) + 1,
\* scoreVariantCursor stays in 0..99, and two consecutive calls never use the
\* same seed
SeedsServedRoundRobin ==
  /\ [](/\ scoreVariantCursor \in 0..99
        /\ call.op = "generateScorecardVariant" => call.seed = ((calls - 1) % 100) + 1)
  /\ [][(call.op = "generateScorecardVariant" /\ call'.op = "generateScorecardVariant")
          => call'.seed # call.seed]_vars

\* the 101st call was served seed 1 again
CursorWrapped ==
  /\ call.op = "generateScorecardVariant"
  /\ calls = 101
  /\ call.seed = 1
  /\ scoreVariantCursor = 1

\* ---- the HTTP server ---------------------------------------------------------
\* A session is a record of SESSION_STORE; its history is an array value.  A
\* request is a record: route, sessionId, files (the staged uploads), prompt,
\* pc (where its handler is suspended), unlinked (the files cleanupFiles was
\* called on), live (how its fetch of the live model settled), status and
\* body of the response (status 0: none yet), and
\* unlinkedAtResponse (unlinked at the moment the response was sent).

SESSION_HISTORY_LIMIT == 12

\* the splice removing the newest entries instead of the oldest
appendSessionHistoryKeepOldest(session, entry, t) ==
  LET pushed == Append(ArrayOrEmpty(session.history), [timestamp |-> t] @@ entry)
  IN  [session EXCEPT !.history =
         Arr(IF Len(pushed) > SESSION_HISTORY_LIMIT
             THEN SubSeq(pushed, 1, SESSION_HISTORY_LIMIT)
             ELSE pushed)]

\* appendSessionHistory(session, entry) at Date.now() = t, for a session object
appendSessionHistory(session, entry, t) ==
  LET pushed == Append(ArrayOrEmpty(session.history), [timestamp |-> t] @@ entry)
  IN  [session EXCEPT !.history =
         Arr(IF Len(pushed) > SESSION_HISTORY_LIMIT
             THEN SubSeq(pushed, Len(pushed) - SESSION_HISTORY_LIMIT + 1, Len(pushed))
             ELSE pushed)]

\* a session that starts as a subscriber's
NewSessionSubscribed(sessionId, t) ==
  [sessionId |-> sessionId, createdAt |-> t, updatedAt |-> t, buildsUsed |-> 0,
   isSubscribed |-> TRUE, stripeCustomerId |-> Null, lastBuild |-> Null,
   history |-> Arr(<<>>)]

\* the session sessionMiddleware creates; the id stands for crypto.randomUUID()
NewSession(sessionId, t) ==
  [sessionId |-> sessionId, createdAt |-> t, updatedAt |-> t, buildsUsed |-> 0,
   isSubscribed |-> FALSE, stripeCustomerId |-> Null, lastBuild |-> Null,
   history |-> Arr(<<>>)]

\* sessionMiddleware for a request carrying the cookie (0: none): the store
\* afterwards and the id of the request's session
sessionMiddleware(store, cookie, t) ==
  LET known == cookie \in DOMAIN store
      sessionId == IF known THEN cookie ELSE Len(store) + 1
      created == IF known THEN store ELSE Append(store, NewSession(sessionId, t))
  IN  [store |-> [created EXCEPT ![sessionId].updatedAt = t,
                                 ![sessionId].history = Arr(ArrayOrEmpty(@))],
       sessionId |-> sessionId]

\* multer has staged n files for request rid
StagedFiles(rid, n) == {<<rid, k>> : k \in 1..n}

NewRequest(route, sessionId, files, prompt) ==
  [route |-> route, sessionId |-> sessionId, files |-> files, prompt |-> prompt,
   pc |-> "handling", unlinked |-> {}, live |-> "none", status |-> 0, body |-> Null,
   unlinkedAtResponse |-> {}]

\* cleanupFiles(files): fs.unlink is requested for every file
cleanupFiles(req) == [req EXCEPT !.unlinked = @ \cup req.files]

\* res.status(status).json(body)
respond(req, status, body) ==
  [req EXCEPT !.status = status, !.body = body, !.unlinkedAtResponse = req.unlinked,
              !.pc = "done"]

\* the values of tone and builder the requests of the model carry
RequestTone == "low-tech"

RequestBuilder == "No builder"

\* Math.max(FREE_BUILD_LIMIT - buildsUsed, 0), null for a subscriber
RemainingFree(session, limit) ==
  IF session.isSubscribed THEN Null
  ELSE JsInt(IF limit - session.buildsUsed > 0 THEN limit - session.buildsUsed ELSE 0)

\* POST /api/analyze without files
analyzeWithoutFiles(req) ==
  respond(cleanupFiles(req), 400, [error |-> "Please upload at least one screenshot."])

\* the try block of POST /api/analyze and its catch; response is what
\* callAdvisorModel returned or that it threw
analyzeHandler(session, req, response, t) ==
  LET asked == appendSessionHistory(session,
                 [role |-> "user", channel |-> "analyze", builder |-> RequestBuilder,
                  tone |-> RequestTone, attachments |-> Cardinality(req.files)], t)
  IN  IF response.threw
      THEN [session |-> asked,
            req |-> respond(cleanupFiles(req), 500,
                            [error |-> "Advisor is unavailable at the moment."])]
      ELSE [session |-> appendSessionHistory(asked,
                          [role |-> "ai", channel |-> "analyze", builder |-> RequestBuilder,
                           tone |-> RequestTone,
                           summary |-> <<response.scores.confidence, response.scores.clarity>>], t),
            req |-> respond(cleanupFiles(req), 200, response)]

\* simulateBuilderPlan({ prompt, builder }) with buildId from crypto.randomUUID()
simulateBuilderPlan(builder, buildId) ==
  LET builderGuidance == getBuilderGuidance(builder)
  IN  [buildId |-> buildId,
       headline |-> Str("Blueprint for " \o builderGuidance.label),
       summary |-> Str("Starter build plan for " \o builderGuidance.label \o "."),
       screens |-> <<"Landing hero", "Proof wall">>,
       flows |-> <<"Hero to signup flow">>,
       dataModel |-> <<"Lead">>,
       builderSteps |->
         << [title |-> Str("Configure layout in " \o builderGuidance.label),
             detail |-> IF Len(builderGuidance.tips) > 0 THEN builderGuidance.tips[1]
                        ELSE <<"Adjust layout spacing", 0>>],
            [title |-> Str("Apply styling system"), detail |-> <<"Set the brand palette", 0>>] >>,
       exportPlan |-> "Package hero + proof sections as reusable components.",
       nextSteps |-> 3,
       suggestedPrompts |-> 2]

\* a catch block that answers without removing the uploads
buildCatchKeepsFiles(session, req) ==
  [session |-> session,
   req |-> respond(req, 500, [error |-> "builder_unavailable"]),
   fetched |-> FALSE]

\* a catch block reached after the build was already counted
buildCatchCountsBuild(session, req) ==
  [session |-> [session EXCEPT !.buildsUsed = @ + 1],
   req |-> respond(cleanupFiles(req), 500, [error |-> "builder_unavailable"]),
   fetched |-> FALSE]

\* the catch block of POST /api/build
buildCatch(session, req) ==
  [session |-> session,
   req |-> respond(cleanupFiles(req), 500, [error |-> "builder_unavailable"]),
   fetched |-> FALSE]

\* POST /api/build from the return of callBuilderModel to the response
buildFinish(session, req, buildPlan, limit, t) ==
  LET counted == [session EXCEPT !.buildsUsed = @ + 1,
                                 !.lastBuild = [id |-> buildPlan.buildId, createdAt |-> t,
                                                summary |-> buildPlan.summary]]
      answered == appendSessionHistory(counted,
                    [role |-> "ai", channel |-> "build", builder |-> RequestBuilder,
                     tone |-> RequestTone, headline |-> buildPlan.headline,
                     summary |-> buildPlan.summary], t)
  IN  [session |-> answered,
       req |-> respond(cleanupFiles(req), 200,
                       [buildsUsed |-> answered.buildsUsed,
                        remainingFreeBuilds |-> RemainingFree(answered, limit),
                        isSubscribed |-> answered.isSubscribed] @@ buildPlan),
       fetched |-> FALSE]

\* callBuilderModel issuing the fetch whether or not a key is configured
callBuilderModelAlwaysLive(session, req, apiKey, limit, rid, t) ==
  [session |-> session, req |-> [req EXCEPT !.pc = "fetching"], fetched |-> TRUE]

\* callBuilderModel up to its first suspension: without a key the simulated
\* plan is returned at once and the handler runs to its response; with a key
\* the fetch is issued
callBuilderModel(session, req, apiKey, limit, rid, t) ==
  IF ~apiKey
  THEN buildFinish(session, req, simulateBuilderPlan(RequestBuilder, ToString(rid)), limit, t)
  ELSE [session |-> session, req |-> [req EXCEPT !.pc = "fetching"], fetched |-> TRUE]

\* POST /api/build from its first line to the first suspension of the handler
buildHandler(session, req, apiKey, limit, rid, t) ==
  IF req.prompt = ""
  THEN [session |-> session,
        req |-> respond(cleanupFiles(req), 400, [error |-> "missing_prompt"]),
        fetched |-> FALSE]
  ELSE IF ~session.isSubscribed /\ session.buildsUsed >= limit
  THEN [session |-> session,
        req |-> respond(cleanupFiles(req), 402,
                        [error |-> "limit_reached", remainingFreeBuilds |-> JsInt(0)]),
        fetched |-> FALSE]
  ELSE IF req.files # {}
  THEN [session |-> appendSessionHistory(session,
                      [role |-> "user", channel |-> "build", builder |-> RequestBuilder,
                       tone |-> RequestTone, attachments |-> Cardinality(req.files)], t),
        req |-> [req EXCEPT !.pc = "reading"],
        fetched |-> FALSE]
  ELSE callBuilderModel(
         appendSessionHistory(session,
           [role |-> "user", channel |-> "build", builder |-> RequestBuilder,
            tone |-> RequestTone, attachments |-> 0], t),
         req, apiKey, limit, rid, t)

\* what the live model can answer: no answer, a non-2xx status, a body
\* without structured payload, or a structured payload
LivePayloads ==
  {Obj([headline |-> Str("H"), screens |-> Arr(<<Obj([name |-> Str("Home")])>>)]),
   Obj([screens |-> Arr(<<Null>>)])}

LiveOutcomes ==
  {[kind |-> "network-error"], [kind |-> "http-error"], [kind |-> "no-payload"]}
    \cup {[kind |-> "payload", structured |-> p] : p \in LivePayloads}

\* callBuilderModel from the return of fetch, and the handler after it
buildAfterFetch(session, req, outcome, limit, rid, t) ==
  IF outcome.kind # "payload"
  THEN buildCatch(session, [req EXCEPT !.live = outcome.kind])
  ELSE LET normalized == normalizeBuildPlan(outcome.structured, RequestBuilder, ToString(rid))
       IN  IF normalized.threw THEN buildCatch(session, [req EXCEPT !.live = "payload"])
           ELSE buildFinish(session, [req EXCEPT !.live = "payload"], normalized.value, limit, t)

\* ---- requests against one server process -------------------------------------

\* requests one run of the process receives
MaxRequests == 2

\* how many files a request uploads
UploadCounts == {0, 1}

\* largest FREE_BUILD_LIMIT of the environment
MaxFreeLimit == 1

Prompts == {"", "landing page"}

InitRequests ==
  /\ scoreVariantCursor = 0
  /\ LOCKED_INSIGHTS = LockedInsightsLiteral
  /\ EXPERIMENT_LIB = ExperimentLibLiteral
  /\ CHECKLIST_LIB = ChecklistLibLiteral
  /\ input = [seed |-> 1, tone |-> RequestTone, builder |-> RequestBuilder]
  /\ call = [op |-> "none"]
  /\ ret = None
  /\ memo = None
  /\ callerPool = <<>>
  /\ calls = 0
  /\ OPENAI_API_KEY \in BOOLEAN
  /\ FREE_BUILD_LIMIT \in 1..MaxFreeLimit
  /\ SESSION_STORE = <<>>
  /\ SESSION_INDEX_BY_CUSTOMER = EmptyIndex
  /\ requests = <<>>
  /\ liveCalls = 0
  /\ now = 0
  /\ state = PageLoaded

\* the cookies a client can send: none (0) or the id of a stored session
Cookies == {0} \cup DOMAIN SESSION_STORE

\* the handler of request rid ran up to its next suspension or to its
\* response: what it left in the store and in the request
Settle(store, rid, out) ==
  /\ SESSION_STORE' = [store EXCEPT ![out.req.sessionId] = out.session]
  /\ requests' = IF rid > Len(requests) THEN Append(requests, out.req)
                 ELSE [requests EXCEPT ![rid] = out.req]
  /\ liveCalls' = IF "fetched" \in DOMAIN out /\ out.fetched THEN liveCalls + 1 ELSE liveCalls
  /\ now' = now + 1

\* POST /api/analyze arrives and is answered: the awaited callAdvisorModel
\* does no I/O, so no other handler runs in between
PostAnalyze ==
  /\ Len(requests) < MaxRequests
  /\ \E cookie \in Cookies, n \in UploadCounts :
       LET rid == Len(requests) + 1
           mw == sessionMiddleware(SESSION_STORE, cookie, now)
           req == NewRequest("analyze", mw.sessionId, StagedFiles(rid, n), "")
           seed == SCORE_VARIANT_SEEDS[scoreVariantCursor + 1]
           out == buildVariantFromSeed(seed, RequestTone, RequestBuilder)
       IN  IF n = 0
           THEN /\ Settle(mw.store, rid,
                          [session |-> mw.store[mw.sessionId], req |-> analyzeWithoutFiles(req)])
                /\ UNCHANGED <<scoreVariantCursor, LOCKED_INSIGHTS, EXPERIMENT_LIB,
                               CHECKLIST_LIB, call, ret, calls>>
           ELSE /\ Settle(mw.store, rid,
                          analyzeHandler(mw.store[mw.sessionId], req, out.card, now))
                /\ scoreVariantCursor' = advanceCursor(scoreVariantCursor)
                /\ LOCKED_INSIGHTS' = out.locked
                /\ EXPERIMENT_LIB' = out.experiments
                /\ CHECKLIST_LIB' = out.checklist
                /\ call' = [op |-> "generateScorecardVariant", seed |-> seed]
                /\ ret' = out.card
                /\ calls' = calls + 1
  /\ UNCHANGED <<input, memo, callerPool, OPENAI_API_KEY, FREE_BUILD_LIMIT,
                 SESSION_INDEX_BY_CUSTOMER, state>>

buildVars ==
  <<scoreVariantCursor, LOCKED_INSIGHTS, EXPERIMENT_LIB, CHECKLIST_LIB, input, call, ret,
    memo, callerPool, calls, OPENAI_API_KEY, FREE_BUILD_LIMIT, SESSION_INDEX_BY_CUSTOMER,
    state>>

\* POST /api/build arrives and its handler runs to its first suspension
PostBuild ==
  /\ Len(requests) < MaxRequests
  /\ \E cookie \in Cookies, n \in UploadCounts, prompt \in Prompts :
       LET rid == Len(requests) + 1
           mw == sessionMiddleware(SESSION_STORE, cookie, now)
       IN  Settle(mw.store, rid,
                  buildHandler(mw.store[mw.sessionId],
                               NewRequest("build", mw.sessionId, StagedFiles(rid, n), prompt),
                               OPENAI_API_KEY, FREE_BUILD_LIMIT, rid, now))
  /\ UNCHANGED buildVars

\* the readFile calls of fileToBase64 completed, or one of them failed
BuildFilesRead ==
  /\ \E rid \in DOMAIN requests, ok \in BOOLEAN :
       /\ requests[rid].pc = "reading"
       /\ Settle(SESSION_STORE, rid,
                 IF ok
                 THEN callBuilderModel(SESSION_STORE[requests[rid].sessionId], requests[rid],
                                       OPENAI_API_KEY, FREE_BUILD_LIMIT, rid, now)
                 ELSE buildCatch(SESSION_STORE[requests[rid].sessionId], requests[rid]))
  /\ UNCHANGED buildVars

\* the fetch of callBuilderModel settled
BuildFetchReturns ==
  /\ \E rid \in DOMAIN requests, outcome \in LiveOutcomes :
       /\ requests[rid].pc = "fetching"
       /\ Settle(SESSION_STORE, rid,
                 buildAfterFetch(SESSION_STORE[requests[rid].sessionId], requests[rid],
                                 outcome, FREE_BUILD_LIMIT, rid, now))
  /\ UNCHANGED buildVars

NextRequests == PostAnalyze \/ PostBuild \/ BuildFilesRead \/ BuildFetchReturns

SpecRequests == InitRequests /\ [][NextRequests]_vars

\* the requests of a session that POST /api/build answered with a build plan
BuildsServed(sessionId) ==
  {rid \in DOMAIN requests : /\ requests[rid].route = "build"
                             /\ requests[rid].sessionId = sessionId
                             /\ requests[rid].status = 200}

\* C12: a session that is not subscribed never gets more than FREE_BUILD_LIMIT
\* requests to /api/build answered 200, however the handlers of concurrent
\* requests interleave
FreeBuildsWithinLimit ==
  \A sessionId \in DOMAIN SESSION_STORE :
    ~SESSION_STORE[sessionId].isSubscribed
      => Cardinality(BuildsServed(sessionId)) <= FREE_BUILD_LIMIT

\* C13: whenever /api/analyze or /api/build has sent its response (400, 402, 200
\* or 500), cleanupFiles had been called on every file staged for the request
\* before the response was sent
FilesCleanedBeforeResponse ==
  \A rid \in DOMAIN requests :
    requests[rid].status # 0
      => /\ requests[rid].status \in {200, 400, 402, 500}
         /\ requests[rid].files \subseteq requests[rid].unlinkedAtResponse

\* a request with an upload got its plan, the next one of the session, also
\* with an upload, was turned away, and the files of both had been unlinked
UploadsAnsweredOnTwoPaths ==
  \A status \in {200, 402} :
    \E rid \in DOMAIN requests :
      /\ requests[rid].status = status
      /\ requests[rid].files # {}
      /\ requests[rid].files \subseteq requests[rid].unlinkedAtResponse

\* ---- the history of one session ----------------------------------------------

\* calls of appendSessionHistory on the session
MaxAppends == 14

HistoryEntries == [role : {"user", "ai"}, channel : {"build"}]

\* the session is the one sessionMiddleware created, or the {} the analyze
\* handler falls back to, which has no history; memo lists what was appended
InitHistory ==
  /\ scoreVariantCursor = 0
  /\ LOCKED_INSIGHTS = LockedInsightsLiteral
  /\ EXPERIMENT_LIB = ExperimentLibLiteral
  /\ CHECKLIST_LIB = ChecklistLibLiteral
  /\ input = [seed |-> 1, tone |-> RequestTone, builder |-> RequestBuilder]
  /\ call = [op |-> "none"]
  /\ ret = None
  /\ memo = <<>>
  /\ callerPool = <<>>
  /\ calls = 0
  /\ OPENAI_API_KEY = FALSE
  /\ FREE_BUILD_LIMIT = 1
  /\ SESSION_STORE \in {<<NewSession(1, 0)>>, <<[history |-> Undefined]>>}
  /\ SESSION_INDEX_BY_CUSTOMER = EmptyIndex
  /\ requests = <<>>
  /\ liveCalls = 0
  /\ now = 0
  /\ state = PageLoaded

AppendSessionHistory ==
  /\ calls < MaxAppends
  /\ \E entry \in HistoryEntries :
       /\ SESSION_STORE' = [SESSION_STORE EXCEPT ![1] = appendSessionHistory(@, entry, now)]
       /\ memo' = Append(memo, [timestamp |-> now] @@ entry)
       /\ call' = [op |-> "appendSessionHistory"]
  /\ calls' = calls + 1
  /\ now' = now + 1
  /\ UNCHANGED <<scoreVariantCursor, LOCKED_INSIGHTS, EXPERIMENT_LIB, CHECKLIST_LIB, input, ret,
                 callerPool, OPENAI_API_KEY, FREE_BUILD_LIMIT, SESSION_INDEX_BY_CUSTOMER,
                 requests, liveCalls, state>>

NextHistory == AppendSessionHistory

SpecHistory == InitHistory /\ [][NextHistory]_vars

\* the last n elements of a sequence, all of it when it is shorter
LastOf(q, n) == IF Len(q) > n THEN SubSeq(q, Len(q) - n + 1, Len(q)) ELSE q

\* C14: after any sequence of appendSessionHistory calls session.history holds
\* at most 12 entries, and they are the most recently appended ones in the
\* order they were appended
HistoryKeepsLatestTwelve ==
  call.op = "appendSessionHistory"
    => /\ IsArray(SESSION_STORE[1].history)
       /\ Len(SESSION_STORE[1].history.v) <= 12
       /\ SESSION_STORE[1].history.v = LastOf(memo, 12)

\* fourteen entries were appended and the two oldest are gone
OldestEntriesEvicted ==
  /\ Len(memo) = 14
  /\ Len(SESSION_STORE[1].history.v) = 12
  /\ SESSION_STORE[1].history.v[1] = memo[3]
  /\ SESSION_STORE[1].history.v[12] = memo[14]

\* C15: a request whose live-model call failed (network error or non-2xx
\* status) or returned no structured payload is answered with a fallback
\* result, not with an error response
LiveFailureFallsBack ==
  \A rid \in DOMAIN requests :
    (requests[rid].live \in {"network-error", "http-error", "no-payload"}
       /\ requests[rid].status # 0)
      => requests[rid].status = 200

\* the body carries every property of the plan
CarriesPlan(body, plan) ==
  /\ DOMAIN plan \subseteq DOMAIN body
  /\ \A k \in DOMAIN plan : body[k] = plan[k]

FlagGroup(flag) == flag.title.tpl.g

FlagTemplate(flag) == <<flag.title.tpl.g, flag.title.tpl.v>>

\* C17: the flags of a Scorecard are three pairwise distinct templates, each
\* from a rule group whose predicate is true of the returned scores: none of
\* the confidence group when confidence >= 55, none of the clarity group when
\* clarity >= 52, none of the pushiness group when pushiness <= 60
FlagsMatchScores ==
  call.op \in {"buildVariantFromSeed", "generateScorecardVariant"} =>
    /\ Len(ret.flags) = 3
    /\ \A i, j \in 1..3 : i # j => FlagTemplate(ret.flags[i]) # FlagTemplate(ret.flags[j])
    /\ \A i \in 1..3 :
         /\ ret.flags[i].title.tpl.pool = "flag"
         /\ FlagGroup(ret.flags[i]) \in 1..4
         /\ FlagGroup(ret.flags[i]) = 1 => ret.scores.confidence.v < 55 * NumScale
         /\ FlagGroup(ret.flags[i]) = 2 => ret.scores.clarity.v < 52 * NumScale
         /\ FlagGroup(ret.flags[i]) = 3 => ret.scores.pushiness.v > 60 * NumScale

\* low confidence without high pushiness: a flag of the confidence group was
\* drawn and none could come from the pushiness group
ConfidenceFlagDrawn ==
  /\ call.op = "buildVariantFromSeed"
  /\ ret.scores.confidence.v < 55 * NumScale
  /\ ret.scores.pushiness.v <= 60 * NumScale
  /\ \E i \in 1..3 : FlagGroup(ret.flags[i]) = 1

\* ---- the rule tables on arbitrary scores -------------------------------------

\* scores on both sides of the threshold of each rule, and the extremes
ScoreGrid ==
  [confidence |-> {0, 54, 55, 100}, pushiness |-> {0, 60, 61, 100}, clarity |-> {0, 51, 52, 100}]

GridScores ==
  [confidence : {JsInt(s) : s \in ScoreGrid.confidence},
   pushiness : {JsInt(s) : s \in ScoreGrid.pushiness},
   clarity : {JsInt(s) : s \in ScoreGrid.clarity}]

RuleInputs ==
  [fn : {"buildFlags"}, scores : GridScores, draws : [1..3 -> DrawWords]]
    \cup [fn : {"buildRewrite"}, scores : GridScores, draws : [1..1 -> DrawWords]]

InitRules ==
  /\ scoreVariantCursor = 0
  /\ LOCKED_INSIGHTS = LockedInsightsLiteral
  /\ EXPERIMENT_LIB = ExperimentLibLiteral
  /\ CHECKLIST_LIB = ChecklistLibLiteral
  /\ input \in RuleInputs
  /\ call = [op |-> "none"]
  /\ ret = None
  /\ memo = None
  /\ callerPool = <<>>
  /\ calls = 0
  /\ ServerIdle

\* buildFlags(scores, guidance, rng); call.filtered is pools.length
BuildFlags ==
  /\ input.fn = "buildFlags"
  /\ calls = 0
  /\ ret' = buildFlags(input.scores, getBuilderGuidance("Bubble"), StreamRng(input.draws))
  /\ call' = [op |-> "buildFlags",
              filtered |-> Len(FlatVariants(FLAG_RULES,
                                 {g \in 1..Len(FLAG_RULES) : FlagCondition(g, input.scores)}, 1))]
  /\ calls' = calls + 1
  /\ UNCHANGED <<scoreVariantCursor, LOCKED_INSIGHTS, EXPERIMENT_LIB, CHECKLIST_LIB,
                 input, memo, callerPool, serverVars>>

\* buildRewrite(scores, guidance, rng); call.filtered is pools.length
BuildRewrite ==
  /\ input.fn = "buildRewrite"
  /\ calls = 0
  /\ ret' = buildRewrite(input.scores, getBuilderGuidance("Bubble"), StreamRng(input.draws))
  /\ call' = [op |-> "buildRewrite",
              filtered |-> Len(FlatVariants(REWRITE_RULES,
                                 {g \in 1..Len(REWRITE_RULES) : RewriteCondition(g, input.scores)}, 1))]
  /\ calls' = calls + 1
  /\ UNCHANGED <<scoreVariantCursor, LOCKED_INSIGHTS, EXPERIMENT_LIB, CHECKLIST_LIB,
                 input, memo, callerPool, serverVars>>

NextRules == BuildFlags \/ BuildRewrite

SpecRules == InitRules /\ [][NextRules]_vars

\* C18: for every score triple some flag rule and some rewrite rule holds (the
\* last rule of each table always does), so neither function takes its
\* fallback to the variants of all rules and randomFrom never gets an empty pool
SomeRuleAlwaysHolds ==
  /\ call.op \in {"buildFlags", "buildRewrite"} => call.filtered > 0 /\ ~ret.threw
  /\ call.op = "buildFlags"
       => /\ Len(ret.value) = 3
          /\ \E g \in 1..Len(FLAG_RULES) : FlagCondition(g, input.scores)
  /\ call.op = "buildRewrite"
       => \E g \in 1..Len(REWRITE_RULES) : RewriteCondition(g, input.scores)

\* on scores above every threshold only the last rewrite rule holds, and the
\* rewrite came from its eight variants
OnlyCatchAllRewrite ==
  /\ call.op = "buildRewrite"
  /\ input.scores.confidence.v >= 55 * NumScale
  /\ input.scores.clarity.v >= 52 * NumScale
  /\ call.filtered = 8
  /\ ret.value.before.tpl.g = 3

\* the text is the tip: a tip is a string literal of the profile, and no text
\* made from a template of another pool equals one
IsTip(text, tip) == text.tpl.pool = "tip" /\ <<text.tpl.g, text.tpl.v>> = tip

Spread(scores) ==
  Max3(scores.confidence.v, scores.pushiness.v, scores.clarity.v)
    - Min3(scores.confidence.v, scores.pushiness.v, scores.clarity.v)

\* C20: the scores generateScores returns satisfy max - min <= 10 for every
\* sequence of draws
ScoresSpreadAtMostTen ==
  call.op = "generateScores" => Spread(ret.scores) <= 10 * NumScale

\* the widest scores the draws of the model produce: 7 apart
WidestScoresDerived ==
  /\ call.op = "generateScores"
  /\ Spread(ret.scores) = 7 * NumScale

\* ---- /api/analyze requests in flight together ---------------------------------
\* The handler is cut at `await callAdvisorModel`: generateScorecardVariant
\* runs before the await, the rest of the handler after it, and any other
\* handler may run in between.  requests holds the seed served to each request
\* that has not sent its response yet; memo lists the seeds in call order.

\* generateScorecardVariant calls of one process
MaxAnalyzeCalls == 101

\* requests suspended at their await at one time
MaxInFlight == 2

InitAnalyze ==
  /\ scoreVariantCursor = 0
  /\ LOCKED_INSIGHTS = LockedInsightsLiteral
  /\ EXPERIMENT_LIB = ExperimentLibLiteral
  /\ CHECKLIST_LIB = ChecklistLibLiteral
  /\ input = [seed |-> 1, tone |-> RequestTone, builder |-> RequestBuilder]
  /\ call = [op |-> "none"]
  /\ ret = None
  /\ memo = <<>>
  /\ callerPool = <<>>
  /\ calls = 0
  /\ ServerIdle

analyzeVars ==
  <<LOCKED_INSIGHTS, EXPERIMENT_LIB, CHECKLIST_LIB, input, ret, callerPool,
    OPENAI_API_KEY, FREE_BUILD_LIMIT, SESSION_STORE, SESSION_INDEX_BY_CUSTOMER, liveCalls,
    state>>

\* a resumed handler storing the cursor it computed before its await
AnalyzeResumesWritingCursor ==
  /\ \E r \in DOMAIN requests :
       /\ requests' = RemoveAt(requests, r)
       /\ scoreVariantCursor' = requests[r].seed % Len(SCORE_VARIANT_SEEDS)
  /\ call' = [op |-> "res.json"]
  /\ now' = now + 1
  /\ UNCHANGED <<memo, calls>>
  /\ UNCHANGED analyzeVars

\* a request with files arrives: the handler runs to its await, and
\* generateScorecardVariant reads the seed and advances the cursor
AnalyzeCalls ==
  /\ calls < MaxAnalyzeCalls
  /\ Len(requests) < MaxInFlight
  /\ LET seed == SCORE_VARIANT_SEEDS[scoreVariantCursor + 1]
     IN  /\ scoreVariantCursor' = advanceCursor(scoreVariantCursor)
         /\ requests' = Append(requests, [route |-> "analyze", seed |-> seed])
         /\ memo' = Append(memo, seed)
         /\ call' = [op |-> "generateScorecardVariant", seed |-> seed]
  /\ calls' = calls + 1
  /\ now' = now + 1
  /\ UNCHANGED analyzeVars

\* the handler of a suspended request resumes and sends its response
AnalyzeResumes ==
  /\ \E r \in DOMAIN requests : requests' = RemoveAt(requests, r)
  /\ call' = [op |-> "res.json"]
  /\ now' = now + 1
  /\ UNCHANGED <<scoreVariantCursor, memo, calls>>
  /\ UNCHANGED analyzeVars

NextAnalyze == AnalyzeCalls \/ AnalyzeResumes

SpecAnalyze == InitAnalyze /\ [][NextAnalyze]_vars

\* C21: with /api/analyze requests in flight together no advance of the cursor
\* is lost (after n calls it is n mod 100, and the n-th call was served seed
\* ((n - 1) mod 100) + 1), and a call is never served a seed that one of the 99
\* calls before it was served
CursorAdvancedAtomically ==
  /\ [](/\ scoreVariantCursor = calls % 100
        /\ Len(memo) = calls
        /\ calls > 0 => memo[calls] = ((calls - 1) % 100) + 1)
  /\ [][calls' = calls + 1
          => \A k \in 1..Len(memo) : Len(memo) - k < 99 => memo'[calls'] # memo[k]]_vars

\* the hundredth call was made while an earlier request was still suspended
HundredthCallOverlaps ==
  /\ calls = 100
  /\ call.op = "generateScorecardVariant"
  /\ Len(requests) = 2
  /\ requests[1].seed < 99
  /\ requests[2].seed = 100

\* ---- extractStructuredPayload ---------------------------------------------------

\* the string JSON.parse reads its argument as, on the values of the model
ToJsonText(x) ==
  CASE x.t = "string" -> x.v
    [] x = JsInt(42) -> "42"
    [] OTHER -> "[object Object]"

\* safeJsonParse(x) of a value
ParsedText(x) == safeJsonParse(ToJsonText(x)).value

NoMatch == [matched |-> FALSE, value |-> Null]

Matched(value) == [matched |-> TRUE, value |-> value]

\* the body of the inner loop for a piece that is not null or undefined: the
\* value returned, or no return
matchPiece(piece) ==
  LET type == Get(piece, "type")
      json == Get(piece, "json")
      schema == Get(piece, "schema")
      text == Get(piece, "text")
      wrapped == Get(piece, "output_json_schema")
  IN  IF type = Str("output_json_schema") /\ ~Falsy(json) THEN Matched(json)
      ELSE IF type = Str("output_json_schema") /\ ~Falsy(schema) THEN Matched(schema)
      ELSE IF type = Str("json_schema") /\ ~Falsy(schema) THEN Matched(schema)
      ELSE IF type = Str("json_schema") /\ ~Falsy(json) THEN Matched(json)
      ELSE IF ~Falsy(wrapped) /\ ~Falsy(Get(wrapped, "json")) THEN Matched(Get(wrapped, "json"))
      ELSE IF ~Falsy(wrapped) /\ ~Falsy(Get(wrapped, "schema"))
      THEN Matched(Get(wrapped, "schema"))
      ELSE IF type = Str("text") /\ ~Falsy(text) /\ ~Falsy(ParsedText(text))
      THEN Matched(ParsedText(text))
      ELSE IF ~Falsy(json) /\ TypeofObject(json) THEN Matched(json)
      ELSE IF ~Falsy(schema) /\ TypeofObject(schema) THEN Matched(schema)
      ELSE IF text.t = "string" /\ ~Falsy(text) /\ ~Falsy(ParsedText(text))
      THEN Matched(ParsedText(text))  \* the 'output_text' test and the last test
      ELSE NoMatch

\* for (const piece of contents), pieces i..: reading piece.type of a null or
\* undefined piece throws
RECURSIVE scanPieces(_, _)
scanPieces(contents, i) ==
  IF i > Len(contents) THEN Returns(NoMatch)
  ELSE IF IsNullish(contents[i]) THEN TypeError
  ELSE IF matchPiece(contents[i]).matched THEN Returns(matchPiece(contents[i]))
  ELSE scanPieces(contents, i + 1)

\* item?.content || [] as the sequence for...of iterates (the characters of a
\* string match nothing, like the string itself); a truthy value that is
\* neither an array nor a string is not iterable
ContentsOf(item) ==
  LET content == IF IsNullish(item) THEN Undefined ELSE Get(item, "content")
  IN  IF Falsy(content) THEN Returns(<<>>)
      ELSE IF IsArray(content) THEN Returns(content.v)
      ELSE IF content.t = "string" THEN Returns(<<content>>)
      ELSE TypeError

\* for (const item of outputs), items i..
RECURSIVE scanItems(_, _)
scanItems(outputs, i) ==
  IF i > Len(outputs) THEN Returns(NoMatch)
  ELSE IF ContentsOf(outputs[i]).threw THEN TypeError
  ELSE IF scanPieces(ContentsOf(outputs[i]).value, 1).threw THEN TypeError
  ELSE IF scanPieces(ContentsOf(outputs[i]).value, 1).value.matched
  THEN scanPieces(ContentsOf(outputs[i]).value, 1)
  ELSE scanItems(outputs, i + 1)

\* result.output_text parsed when it is a string
outputTextPayload(result) ==
  IF Get(result, "output_text").t = "string" /\ ~Falsy(ParsedText(Get(result, "output_text")))
  THEN ParsedText(Get(result, "output_text"))
  ELSE Null

\* extractStructuredPayload trying result.output_text before the output items
extractOutputTextFirst(result) ==
  IF Falsy(result) THEN Returns(Null)
  ELSE IF outputTextPayload(result) # Null THEN Returns(outputTextPayload(result))
  ELSE IF scanItems(ArrayOrEmpty(Get(result, "output")), 1).threw THEN TypeError
  ELSE IF scanItems(ArrayOrEmpty(Get(result, "output")), 1).value.matched
  THEN Returns(scanItems(ArrayOrEmpty(Get(result, "output")), 1).value.value)
  ELSE Returns(Null)

extractStructuredPayload(result) ==
  IF Falsy(result) THEN Returns(Null)
  ELSE IF scanItems(ArrayOrEmpty(Get(result, "output")), 1).threw THEN TypeError
  ELSE IF scanItems(ArrayOrEmpty(Get(result, "output")), 1).value.matched
  THEN Returns(scanItems(ArrayOrEmpty(Get(result, "output")), 1).value.value)
  ELSE Returns(outputTextPayload(result))

\* longest output array and longest content array of an envelope
MaxPieces == 2

PayloadA == Obj([id |-> Str("a")])

PayloadB == Obj([id |-> Str("b")])

Pieces ==
  {Null, EmptyObject,
   Obj([type |-> Str("output_json_schema"), json |-> PayloadA]),
   Obj([type |-> Str("json_schema"), schema |-> PayloadB]),
   Obj([output_json_schema |-> Obj([schema |-> PayloadA])]),
   Obj([type |-> Str("text"), text |-> Str("{\"scores\":{\"confidence\":140}}")]),
   Obj([type |-> Str("text"), text |-> Str("null")]),
   Obj([type |-> Str("output_text"), text |-> Str("not json")]),
   Obj([type |-> Str("output_text"), text |-> Str("42")]),
   Obj([json |-> Str("bare")])}

SeqsUpTo(S, n) == UNION {[1..k -> S] : k \in 0..n}

OutputItems ==
  {Null, EmptyObject, Obj([content |-> JsInt(5)]), Obj([content |-> Str("plain")])}
    \cup {Obj([content |-> Arr(q)]) : q \in SeqsUpTo(Pieces, MaxPieces)}

Envelopes ==
  {Null, Undefined, Str("error"), EmptyObject}
    \cup {MakeObj([output |-> output, output_text |-> text]) :
            output \in {Absent, Str("x")} \cup {Arr(q) : q \in SeqsUpTo(OutputItems, MaxPieces)},
            text \in {Absent, Str("{}"), Str("not json"), JsInt(42)}}

InitExtract ==
  /\ scoreVariantCursor = 0
  /\ LOCKED_INSIGHTS = LockedInsightsLiteral
  /\ EXPERIMENT_LIB = ExperimentLibLiteral
  /\ CHECKLIST_LIB = ChecklistLibLiteral
  /\ input \in [fn : {"extractStructuredPayload"}, result : Envelopes]
  /\ call = [op |-> "none"]
  /\ ret = None
  /\ memo = None
  /\ callerPool = <<>>
  /\ calls = 0
  /\ ServerIdle

ExtractStructuredPayload ==
  /\ calls = 0
  /\ ret' = extractStructuredPayload(input.result)
  /\ call' = [op |-> "extractStructuredPayload"]
  /\ calls' = calls + 1
  /\ UNCHANGED <<scoreVariantCursor, LOCKED_INSIGHTS, EXPERIMENT_LIB, CHECKLIST_LIB,
                 input, memo, callerPool, serverVars>>

NextExtract == ExtractStructuredPayload

SpecExtract == InitExtract /\ [][NextExtract]_vars

\* the content pieces of the output items i.. of an envelope, in order (an
\* item whose content cannot be iterated has none)
RECURSIVE PiecesInOrder(_, _)
PiecesInOrder(outputs, i) ==
  IF i > Len(outputs) THEN <<>>
  ELSE (IF ContentsOf(outputs[i]).threw THEN <<>> ELSE ContentsOf(outputs[i]).value)
         \o PiecesInOrder(outputs, i + 1)

\* the positions of the pieces that match a known shape
MatchingPieces(flat) ==
  {k \in 1..Len(flat) : ~IsNullish(flat[k]) /\ matchPiece(flat[k]).matched}

\* what the call returned is the payload of the first matching piece, else
\* the parsed output_text, else null
FirstMatchReturned ==
  LET flat == PiecesInOrder(ArrayOrEmpty(Get(input.result, "output")), 1)
      hits == MatchingPieces(flat)
  IN  IF hits # {}
      THEN ret.value = matchPiece(flat[CHOOSE k \in hits : \A h \in hits : k <= h]).value
      ELSE ret.value = outputTextPayload(input.result)

\* C22: extractStructuredPayload returns the payload of the first content piece,
\* in order, that matches a known shape, the parsed result.output_text only
\* when no piece matched, null exactly when nothing matched, and never throws
ExtractsFirstMatchNeverThrows ==
  call.op = "extractStructuredPayload" =>
    /\ ~ret.threw
    /\ FirstMatchReturned
    /\ (ret.value = Null) <=>
         (/\ MatchingPieces(PiecesInOrder(ArrayOrEmpty(Get(input.result, "output")), 1)) = {}
          /\ outputTextPayload(input.result) = Null)

\* whenever the call returns, it returns the payload of the first matching
\* piece, else the parsed output_text, and null exactly when nothing matched
FirstMatchWheneverReturned ==
  (call.op = "extractStructuredPayload" /\ ~ret.threw) =>
    /\ FirstMatchReturned
    /\ (ret.value = Null) <=>
         (/\ MatchingPieces(PiecesInOrder(ArrayOrEmpty(Get(input.result, "output")), 1)) = {}
          /\ outputTextPayload(input.result) = Null)

\* C23: for a fixed seed and builder the Scorecard is the same for every tone
\* except for the echoed tone: scores, flags, rewrite, insights, actions,
\* experiments and checklist, and their order, do not depend on tone
ToneOnlyEchoed ==
  call.op = "buildVariantFromSeed" =>
    \A tone \in Tones :
      buildVariantFromSeed(input.seed, tone, input.builder).card = [ret EXCEPT !.tone = tone]

\* a Scorecard asked with one tone, with the items of the one asked with the other
SameItemsForOtherTone ==
  /\ call.op = "buildVariantFromSeed"
  /\ input.tone = "expert"
  /\ ret.tone = "expert"
  /\ ret.flags = buildVariantFromSeed(input.seed, "low-tech", input.builder).card.flags
  /\ buildVariantFromSeed(input.seed, "low-tech", input.builder).card.tone = "low-tech"

\* the first derivation as the claim states it, on integers and without clamp
FirstDerivation(draws) ==
  LET base == randomBetween(draws[1], 35, 82)
      confidence == base + randomBetween(draws[2], 0 - 5, 5)
      pushiness == confidence + randomBetween(draws[3], 0 - 6, 6)
      clarity == RoundRatio(confidence + pushiness, 2) + randomBetween(draws[4], 0 - 4, 4)
  IN  [confidence |-> confidence, pushiness |-> pushiness, clarity |-> clarity]

\* C24: the first derivation of generateScores never has a spread above 10 and
\* never leaves 0..100: the smoothing branch is not entered (no draw beyond
\* the fourth is consumed) and the scores returned are the derived values,
\* unchanged by clampScore
FirstDerivationReturned ==
  call.op = "generateScores" =>
    LET derived == FirstDerivation(input.draws)
    IN  /\ \A k \in ScoreKeys : derived[k] \in 0..100 /\ ret.scores[k] = JsInt(derived[k])
        /\ \A j, k \in ScoreKeys : derived[j] - derived[k] <= 10
        /\ ret.rng.i = 4

\* the smallest draws: the lowest confidence the derivation gives, 30
LowestScoresDerived ==
  /\ call.op = "generateScores"
  /\ ret.scores.confidence = JsInt(30)
  /\ ret.scores.pushiness = JsInt(24)
  /\ ret.rng.i = 4

\* the step sends the response of request rid
Answers(rid) ==
  /\ rid \in DOMAIN requests'
  /\ requests'[rid].status # 0
  /\ rid \in DOMAIN requests => requests[rid].status = 0

\* buildsUsed and lastBuild of a session before the step; a session the step
\* creates starts with 0 and null
UsageBefore(sessionId) ==
  IF sessionId \in DOMAIN SESSION_STORE
  THEN [buildsUsed |-> SESSION_STORE[sessionId].buildsUsed,
        lastBuild |-> SESSION_STORE[sessionId].lastBuild]
  ELSE [buildsUsed |-> 0, lastBuild |-> Null]

\* C25: a /api/build request answered 400, 402 or 500 leaves buildsUsed and
\* lastBuild of its session as they were; one answered 200 raises buildsUsed by
\* exactly 1 and sets lastBuild.id to the buildId of the response
BuildCountsOnlySuccess ==
  [][\A rid \in DOMAIN requests' :
       (Answers(rid) /\ requests'[rid].route = "build") =>
         LET before == UsageBefore(requests'[rid].sessionId)
             after == SESSION_STORE'[requests'[rid].sessionId]
         IN  IF requests'[rid].status = 200
             THEN /\ after.buildsUsed = before.buildsUsed + 1
                  /\ after.lastBuild.id = requests'[rid].body.buildId
             ELSE /\ requests'[rid].status \in {400, 402, 500}
                  /\ after.buildsUsed = before.buildsUsed
                  /\ after.lastBuild = before.lastBuild]_vars

\* a session got one build and then an error response: one build is counted
\* and lastBuild is still the build of the first response
ErrorAfterBuildLeftUsage ==
  \E ok, failed \in DOMAIN requests :
    /\ ok < failed
    /\ requests[ok].route = "build" /\ requests[ok].status = 200
    /\ requests[failed].route = "build" /\ requests[failed].status = 500
    /\ requests[failed].sessionId = requests[ok].sessionId
    /\ SESSION_STORE[requests[ok].sessionId].buildsUsed = 1
    /\ SESSION_STORE[requests[ok].sessionId].lastBuild.id = requests[ok].body.buildId

\* ---- Stripe billing: checkout, webhook and the subscription flag --------

\* a subscription that keeps the count of builds used so far
markSessionSubscribedKeepsCount(store, index, sessionId, customerId, t) ==
  IF sessionId \notin DOMAIN store THEN [store |-> store, index |-> index]
  ELSE [store |-> [store EXCEPT ![sessionId].isSubscribed = TRUE,
                                ![sessionId].updatedAt = t,
                                ![sessionId].stripeCustomerId =
                                  IF Falsy(customerId) THEN @ ELSE customerId],
        index |-> IF Falsy(customerId) THEN index
                  ELSE [index EXCEPT ![customerId.v] = sessionId]]

\* markSessionSubscribed(sessionId, customerId) at Date.now() = t
markSessionSubscribed(store, index, sessionId, customerId, t) ==
  IF sessionId \notin DOMAIN store THEN [store |-> store, index |-> index]
  ELSE [store |-> [store EXCEPT ![sessionId].isSubscribed = TRUE,
                                ![sessionId].buildsUsed = 0,
                                ![sessionId].updatedAt = t,
                                ![sessionId].stripeCustomerId =
                                  IF Falsy(customerId) THEN @ ELSE customerId],
        index |-> IF Falsy(customerId) THEN index
                  ELSE [index EXCEPT ![customerId.v] = sessionId]]

\* markSessionUnsubscribed(customerId) at Date.now() = t
markSessionUnsubscribed(store, index, customerId, t) ==
  LET sessionId == index[customerId.v]
  IN  IF sessionId = 0 \/ sessionId \notin DOMAIN store
      THEN [store |-> store, index |-> index]
      ELSE [store |-> [store EXCEPT ![sessionId].isSubscribed = FALSE,
                                    ![sessionId].updatedAt = t],
            index |-> index]

\* the statuses tested by customer.subscription.created and .updated
SubscribingStatuses == {"active", "trialing", "past_due"}

UnsubscribingStatuses == {"canceled", "unpaid", "incomplete_expired"}

\* handleStripeWebhook(event): event.sessionId stands for
\* data.object.metadata.sessionId (0: missing or empty), event.customer for
\* data.object.customer, event.status for data.object.status. The function is
\* not async and has no return statement: it returns undefined
handleStripeWebhook(store, index, event, t) ==
  LET unchanged == [store |-> store, index |-> index]
      applied ==
        CASE event.type = "checkout.session.completed" ->
               IF event.sessionId # 0
               THEN markSessionSubscribed(store, index, event.sessionId,
                                          OrElse(event.customer, Null), t)
               ELSE unchanged
          [] event.type \in {"customer.subscription.created",
                             "customer.subscription.updated"} ->
               IF Falsy(event.customer) THEN unchanged
               ELSE IF event.status \in SubscribingStatuses
               THEN IF index[event.customer.v] # 0
                    THEN markSessionSubscribed(store, index, index[event.customer.v],
                                               event.customer, t)
                    ELSE unchanged
               ELSE IF event.status \in UnsubscribingStatuses
               THEN markSessionUnsubscribed(store, index, event.customer, t)
               ELSE unchanged
          [] event.type \in {"customer.subscription.deleted",
                             "customer.subscription.expired"} ->
               IF Falsy(event.customer) THEN unchanged
               ELSE markSessionUnsubscribed(store, index, event.customer, t)
          [] OTHER -> unchanged
  IN  applied @@ [returned |-> Undefined]

\* the handler of POST /api/payments/webhook, registered when stripe and
\* stripeWebhookSecret are set. event is what constructEvent returned, or
\* Undefined when it threw on the signature. `.catch` is read from what
\* handleStripeWebhook returned; on undefined that throws a TypeError, which
\* Express answers with 500
webhookRoute(store, index, req, event, t) ==
  IF event = Undefined
  THEN [store |-> store, index |-> index,
        req |-> respond(req, 400, [error |-> "Webhook error"])]
  ELSE LET handled == handleStripeWebhook(store, index, event, t)
       IN  [store |-> handled.store, index |-> handled.index,
            req |-> IF IsNullish(handled.returned)
                    THEN respond(req, 500, [error |-> "TypeError"])
                    ELSE respond(req, 200, [received |-> TRUE])]

\* the fallback app.use at the end of the routes: index.html is sent
notFoundRoute(req) == respond(req, 200, [file |-> "index.html"])

\* the handler of GET /api/session
sessionRoute(session, req, limit) ==
  respond(req, 200,
          [sessionId |-> req.sessionId,
           buildsUsed |-> session.buildsUsed,
           freeBuildLimit |-> IF session.isSubscribed THEN Null ELSE JsInt(limit),
           remainingFreeBuilds |-> RemainingFree(session, limit),
           isSubscribed |-> session.isSubscribed])

\* the handler of POST /api/payments/checkout up to its await, for the
\* configuration config (which of the Stripe settings are present)
checkoutRoute(req, config) ==
  IF ~config.stripe THEN respond(req, 503, [error |-> "Payments disabled"])
  ELSE IF ~config.priceId THEN respond(req, 500, [error |-> "Missing STRIPE_PRICE_ID"])
  ELSE [req EXCEPT !.pc = "creating"]

\* stripe.checkout.sessions.create settled
checkoutAfterCreate(req, created) ==
  IF created THEN respond(req, 200, [url |-> "checkout", sessionId |-> req.sessionId])
  ELSE respond(req, 500, [error |-> "Could not create checkout session."])

MaxClientRequests == 2

MaxEvents == 3

\* an id that no session has: a forged cookie, or a session of an earlier
\* run of the server
UnknownSession == 0 - 1

\* which of STRIPE_SECRET_KEY, STRIPE_PRICE_ID, STRIPE_WEBHOOK_SECRET are set
StripeConfigs ==
  {[stripe |-> TRUE, priceId |-> TRUE, webhookSecret |-> TRUE],
   [stripe |-> TRUE, priceId |-> FALSE, webhookSecret |-> FALSE],
   [stripe |-> FALSE, priceId |-> FALSE, webhookSecret |-> FALSE]}

InitBilling ==
  /\ scoreVariantCursor = 0
  /\ LOCKED_INSIGHTS = LockedInsightsLiteral
  /\ EXPERIMENT_LIB = ExperimentLibLiteral
  /\ CHECKLIST_LIB = ChecklistLibLiteral
  /\ input \in StripeConfigs
  /\ call = [op |-> "none"]
  /\ ret = None
  /\ memo = 0
  /\ callerPool = <<>>
  /\ calls = 0
  /\ ServerIdle

\* the cookies a client can send: none (0), a forged one, or a session id
ClientCookies == {0, UnknownSession} \cup DOMAIN SESSION_STORE

CustomerValues == {Undefined} \cup {Str(customerId) : customerId \in Customers}

\* the events Stripe delivers, and Undefined for a body whose signature
\* constructEvent rejects
StripeEvents ==
  {Undefined}
  \cup
  [type : {"checkout.session.completed"},
   sessionId : {0, UnknownSession} \cup DOMAIN SESSION_STORE,
   customer : CustomerValues, status : {"complete"}]
  \cup
  [type : {"customer.subscription.updated"}, sessionId : {0},
   customer : CustomerValues, status : {"active", "canceled", "incomplete"}]
  \cup
  [type : {"customer.subscription.deleted"}, sessionId : {0},
   customer : CustomerValues, status : {"canceled"}]
  \cup
  [type : {"invoice.paid"}, sessionId : {0}, customer : {Undefined}, status : {"paid"}]

\* the handler of a request ran to its response or to its next suspension:
\* r is the position of the request among those in flight, 0 if it is new
SettleBilling(store, r, out, request) ==
  /\ SESSION_STORE' = [store EXCEPT ![out.req.sessionId] = out.session]
  /\ requests' = IF out.req.pc = "done"
                 THEN (IF r = 0 THEN requests ELSE RemoveAt(requests, r))
                 ELSE (IF r = 0 THEN Append(requests, out.req)
                       ELSE [requests EXCEPT ![r] = out.req])
  /\ call' = request
  /\ ret' = out.req

\* Date.now() has millisecond resolution: the requests of this specification
\* arrive within one millisecond
billingVars ==
  <<LOCKED_INSIGHTS, EXPERIMENT_LIB, CHECKLIST_LIB, input, callerPool, OPENAI_API_KEY,
    FREE_BUILD_LIMIT, liveCalls, now, state>>

\* GET /api/session arrives and is answered
SessionRequest ==
  /\ calls < MaxClientRequests
  /\ \E cookie \in ClientCookies :
       LET mw == sessionMiddleware(SESSION_STORE, cookie, now)
           req == NewRequest("session", mw.sessionId, {}, "")
       IN  SettleBilling(mw.store, 0,
                         [session |-> mw.store[mw.sessionId],
                          req |-> sessionRoute(mw.store[mw.sessionId], req, FREE_BUILD_LIMIT)],
                         [op |-> "session", cookie |-> cookie])
  /\ calls' = calls + 1
  /\ UNCHANGED <<scoreVariantCursor, memo, SESSION_INDEX_BY_CUSTOMER>>
  /\ UNCHANGED billingVars

\* POST /api/analyze arrives and is answered
AnalyzeRequest ==
  /\ calls < MaxClientRequests
  /\ \E cookie \in ClientCookies, n \in UploadCounts :
       LET mw == sessionMiddleware(SESSION_STORE, cookie, now)
           req == NewRequest("analyze", mw.sessionId, StagedFiles(calls + 1, n), "")
           seed == SCORE_VARIANT_SEEDS[scoreVariantCursor + 1]
       IN  /\ SettleBilling(mw.store, 0,
                IF n = 0
                THEN [session |-> mw.store[mw.sessionId], req |-> analyzeWithoutFiles(req)]
                ELSE analyzeHandler(mw.store[mw.sessionId], req,
                       buildVariantFromSeed(seed, RequestTone, RequestBuilder).card, now),
                [op |-> "analyze", cookie |-> cookie])
           /\ scoreVariantCursor' =
                IF n = 0 THEN scoreVariantCursor ELSE advanceCursor(scoreVariantCursor)
  /\ calls' = calls + 1
  /\ UNCHANGED <<memo, SESSION_INDEX_BY_CUSTOMER>>
  /\ UNCHANGED billingVars

\* POST /api/build arrives without uploads and, no key being set, is
\* answered without a suspension (SpecRequests has the suspended builds)
BuildRequest ==
  /\ calls < MaxClientRequests
  /\ \E cookie \in ClientCookies, prompt \in Prompts :
       LET mw == sessionMiddleware(SESSION_STORE, cookie, now)
           req == NewRequest("build", mw.sessionId, {}, prompt)
       IN  SettleBilling(mw.store, 0,
                         buildHandler(mw.store[mw.sessionId], req, OPENAI_API_KEY,
                                      FREE_BUILD_LIMIT, calls + 1, now),
                         [op |-> "build", cookie |-> cookie])
  /\ calls' = calls + 1
  /\ UNCHANGED <<scoreVariantCursor, memo, SESSION_INDEX_BY_CUSTOMER>>
  /\ UNCHANGED billingVars

\* POST /api/payments/checkout arrives and runs to its await or its response
CheckoutRequest ==
  /\ calls < MaxClientRequests
  /\ \E cookie \in ClientCookies :
       LET mw == sessionMiddleware(SESSION_STORE, cookie, now)
           req == NewRequest("checkout", mw.sessionId, {}, "")
       IN  SettleBilling(mw.store, 0,
                         [session |-> mw.store[mw.sessionId],
                          req |-> checkoutRoute(req, input)],
                         [op |-> "checkout", cookie |-> cookie])
  /\ calls' = calls + 1
  /\ UNCHANGED <<scoreVariantCursor, memo, SESSION_INDEX_BY_CUSTOMER>>
  /\ UNCHANGED billingVars

\* stripe.checkout.sessions.create settled and the handler answers
CheckoutSettles ==
  /\ \E r \in DOMAIN requests, created \in BOOLEAN :
       /\ requests[r].pc = "creating"
       /\ SettleBilling(SESSION_STORE, r,
                        [session |-> SESSION_STORE[requests[r].sessionId],
                         req |-> checkoutAfterCreate(requests[r], created)],
                        [op |-> "checkout", resumed |-> TRUE])
  /\ UNCHANGED <<scoreVariantCursor, memo, calls, SESSION_INDEX_BY_CUSTOMER>>
  /\ UNCHANGED billingVars

\* POST /api/payments/webhook arrives, without a cookie, and is answered
WebhookRequest ==
  /\ memo < MaxEvents
  /\ \E event \in StripeEvents :
       LET mw == sessionMiddleware(SESSION_STORE, 0, now)
           req == NewRequest("webhook", mw.sessionId, {}, "")
           out == IF input.stripe /\ input.webhookSecret
                  THEN webhookRoute(mw.store, SESSION_INDEX_BY_CUSTOMER, req, event, now)
                  ELSE [store |-> mw.store, index |-> SESSION_INDEX_BY_CUSTOMER,
                        req |-> notFoundRoute(req)]
       IN  /\ SESSION_STORE' = out.store
           /\ SESSION_INDEX_BY_CUSTOMER' = out.index
           /\ call' = [op |-> "webhook", event |-> event,
                       registered |-> input.stripe /\ input.webhookSecret]
           /\ ret' = out.req
  /\ memo' = memo + 1
  /\ UNCHANGED <<scoreVariantCursor, calls, requests>>
  /\ UNCHANGED billingVars

NextBilling ==
  \/ SessionRequest
  \/ AnalyzeRequest
  \/ BuildRequest
  \/ CheckoutRequest
  \/ CheckoutSettles
  \/ WebhookRequest

SpecBilling == InitBilling /\ [][NextBilling]_vars

BillingTypeOK == SESSION_INDEX_BY_CUSTOMER \in [Customers -> Nat]

\* the step is the handling of a webhook whose signature verified
Delivered(type) ==
  /\ call'.op = "webhook" /\ call'.registered
  /\ call'.event # Undefined
  /\ call'.event.type = type

\* the step processes an unsubscribing event for a customer
Unsubscribing ==
  /\ call'.op = "webhook" /\ call'.registered
  /\ call'.event # Undefined
  /\ \/ call'.event.type = "customer.subscription.deleted"
     \/ call'.event.type = "customer.subscription.updated"
          /\ call'.event.status \in UnsubscribingStatuses
  /\ call'.event.customer # Undefined

\* the event of the step unsubscribes the session the index has for its
\* customer
UnsubscribesIndexed(sessionId) ==
  Unsubscribing /\ SESSION_INDEX_BY_CUSTOMER[call'.event.customer.v] = sessionId

\* C26: a processed checkout.session.completed that names a stored session
\* leaves it subscribed with buildsUsed = 0; a subscribed session stays
\* subscribed in every step but the processing of an unsubscribing event for a
\* customer the index maps to it; and no /api/build of a subscribed session
\* is answered 402
SubscribedUntilUnsubscribingEvent ==
  [][/\ \A sessionId \in DOMAIN SESSION_STORE :
          /\ (Delivered("checkout.session.completed")
                /\ call'.event.sessionId = sessionId) =>
               /\ SESSION_STORE'[sessionId].isSubscribed
               /\ SESSION_STORE'[sessionId].buildsUsed = 0
          /\ (SESSION_STORE[sessionId].isSubscribed
                /\ ~SESSION_STORE'[sessionId].isSubscribed) =>
               UnsubscribesIndexed(sessionId)
     /\ (call'.op = "build" /\ ret'.status = 402) =>
          ~SESSION_STORE'[ret'.sessionId].isSubscribed]_vars

\* a session that had used its free build was subscribed by a checkout and
\* gets a build beyond the free limit
SubscriberBuildsBeyondLimit ==
  /\ call.op = "build" /\ ret.status = 200
  /\ SESSION_STORE[ret.sessionId].isSubscribed
  /\ SESSION_STORE[ret.sessionId].buildsUsed > FREE_BUILD_LIMIT

\* C27: after customer.subscription.deleted, or an update with status
\* canceled, unpaid or incomplete_expired, for customer c is processed, no
\* session whose stripeCustomerId is c is subscribed
NoSubscribedSessionOfCanceledCustomer ==
  [][\A sessionId \in DOMAIN SESSION_STORE :
       (Unsubscribing /\ SESSION_STORE'[sessionId].stripeCustomerId = call'.event.customer) =>
         ~SESSION_STORE'[sessionId].isSubscribed]_vars

\* what does hold: the session the index has for the customer is not
\* subscribed after the event
IndexedSessionUnsubscribed ==
  [][\A sessionId \in DOMAIN SESSION_STORE :
       UnsubscribesIndexed(sessionId) => ~SESSION_STORE'[sessionId].isSubscribed]_vars

\* C28: every webhook request whose signature verifies is answered
\* 200 {received: true}
VerifiedWebhookAcknowledged ==
  (call.op = "webhook" /\ call.registered /\ call.event # Undefined) =>
    ret.status = 200 /\ ret.body = [received |-> TRUE]

\* what does hold: the event of such a request was applied through
\* handleStripeWebhook before the answer
VerifiedWebhookApplied ==
  [][(call'.op = "webhook" /\ call'.registered /\ call'.event # Undefined) =>
       LET mw == sessionMiddleware(SESSION_STORE, 0, now)
           handled == handleStripeWebhook(mw.store, SESSION_INDEX_BY_CUSTOMER,
                                          call'.event, now)
       IN  /\ SESSION_STORE' = handled.store
           /\ SESSION_INDEX_BY_CUSTOMER' = handled.index]_vars

\* the step handles a request of a client, or resumes one
ClientStep == call'.op \in {"session", "analyze", "build", "checkout"}

\* C29: a session is created with buildsUsed = 0 and isSubscribed = false; a
\* request with a missing or unknown cookie gets an id that no session had and
\* that is not the one the client sent; and no /api/session, /api/analyze,
\* /api/build or /api/payments/checkout request changes isSubscribed of any
\* session
OnlyWebhookSubscribes ==
  /\ [](\A cookie \in ClientCookies :
          cookie \notin DOMAIN SESSION_STORE =>
            LET mw == sessionMiddleware(SESSION_STORE, cookie, now)
            IN  /\ mw.sessionId # cookie
                /\ mw.sessionId \notin DOMAIN SESSION_STORE
                /\ mw.store[mw.sessionId].buildsUsed = 0
                /\ ~mw.store[mw.sessionId].isSubscribed)
  /\ [][ClientStep =>
          /\ \A sessionId \in DOMAIN SESSION_STORE :
               SESSION_STORE'[sessionId].isSubscribed = SESSION_STORE[sessionId].isSubscribed
          /\ \A sessionId \in DOMAIN SESSION_STORE' \ DOMAIN SESSION_STORE :
               /\ ~SESSION_STORE'[sessionId].isSubscribed
               /\ ret'.sessionId = sessionId
               /\ call'.cookie \notin DOMAIN SESSION_STORE
               /\ call'.cookie # sessionId]_vars

\* a subscriber's request with a forged cookie got a new, unsubscribed
\* session while the subscribed one stayed subscribed
ForgedCookieGetsFreshSession ==
  /\ call.op = "session" /\ call.cookie = UnknownSession
  /\ ~SESSION_STORE[ret.sessionId].isSubscribed
  /\ \E sessionId \in DOMAIN SESSION_STORE : SESSION_STORE[sessionId].isSubscribed

\* ---- the intake dialogue of the chat page (public/app.js) ---------------

\* the lengths below which conversation.length is compared are 1 and 2: the
\* count of messages that are not pending is kept up to this value
ConversationCap == 3

\* the number of questions getIntakeQuestions() returns without follow-ups
DEFAULT_INTAKE_QUESTIONS == 3

MIN_INTAKE_ANSWER_LEN == 18

\* the texts a user submits, with what the regular expressions of
\* requiresFreshIntake and isAnswerSufficient find in them
UserTexts ==
  {[text |-> "hi", length |-> 2, restart |-> FALSE, followUpCue |-> FALSE,
    filler |-> TRUE, audience |-> FALSE, goal |-> FALSE, weakness |-> FALSE],
   [text |-> "restart", length |-> 7, restart |-> TRUE, followUpCue |-> FALSE,
    filler |-> FALSE, audience |-> FALSE, goal |-> FALSE, weakness |-> FALSE],
   [text |-> "tune my pricing page copy", length |-> 25, restart |-> FALSE,
    followUpCue |-> FALSE, filler |-> FALSE, audience |-> FALSE, goal |-> FALSE,
    weakness |-> FALSE],
   [text |-> "buyers drop off before signup", length |-> 29, restart |-> FALSE,
    followUpCue |-> FALSE, filler |-> FALSE, audience |-> TRUE, goal |-> TRUE,
    weakness |-> TRUE]}

\* getIntakeQuestions().length
IntakeQuestionCount(st) ==
  IF st.dynamicIntakeQuestions > 0 THEN st.dynamicIntakeQuestions
  ELSE DEFAULT_INTAKE_QUESTIONS

\* whether /outcome|goal|achieve|need them/ matches question number index:
\* of the default questions it matches the first; the follow-up questions of
\* the model do not contain these words
AsksGoal(st, index) == st.dynamicIntakeQuestions = 0 /\ index = 0

\* isAnswerSufficient(text, questionIndex, questionText)
isAnswerSufficient(text, questionIndex, asksGoal) ==
  /\ text.length >= MIN_INTAKE_ANSWER_LEN
  /\ ~text.filler
  /\ questionIndex = 0 => text.audience
  /\ asksGoal => text.goal
  /\ questionIndex = 1 => text.weakness

\* conversation.length when pending messages are shown for `pending` requests
ConversationLength(st, pending) == st.conversation + pending

\* requiresFreshIntake(text)
requiresFreshIntake(st, text, pending) ==
  \/ text.length < 4
  \/ text.restart
  \/ text.followUpCue /\ ConversationLength(st, pending) > 1
  \/ st.pendingFollowups > 0

\* addMessage(sender, text) of a message that is not pending
addMessage(st) ==
  [st EXCEPT !.conversation = IF @ < ConversationCap THEN @ + 1 ELSE @]

\* what a handler of the page did: the state it left, the advisor requests it
\* sent, and whether finalizeIntake ran, with the answers it composed
Did(st, sent, finalized, answers) ==
  [state |-> st, sent |-> sent, finalized |-> finalized, answers |-> answers]

\* finalizeIntake(): the synchronous part of sendAdvisorRequest pushes the
\* pending message
finalizeIntake(st) ==
  Did([st EXCEPT !.awaitingIntake = FALSE, !.expectingIntakeAnswer = FALSE,
                 !.intakeAnswers = <<>>, !.intakeQuestionIndex = 0,
                 !.dynamicIntakeQuestions = 0, !.pendingFollowups = 0],
      1, TRUE, st.intakeAnswers)

\* askNextIntakeQuestion()
askNextIntakeQuestion(st) ==
  IF st.intakeQuestionIndex >= IntakeQuestionCount(st) THEN finalizeIntake(st)
  ELSE Did([addMessage(st) EXCEPT !.expectingIntakeAnswer = TRUE], 0, FALSE, <<>>)

\* startIntake(seedPrompt, questions, options): provided is the number of
\* questions left by filter(Boolean)
startIntake(st, provided, skipInitialPrompt) ==
  LET started == [st EXCEPT !.intakeAnswers = <<>>, !.intakeQuestionIndex = 0,
                            !.awaitingIntake = TRUE,
                            !.expectingIntakeAnswer = skipInitialPrompt,
                            !.dynamicIntakeQuestions = provided,
                            !.pendingFollowups = provided]
  IN  IF skipInitialPrompt THEN Did(started, 0, FALSE, <<>>)
      ELSE askNextIntakeQuestion(started)

\* recordIntakeAnswer(answer)
recordIntakeAnswer(st, answer) ==
  LET recorded == [st EXCEPT !.intakeAnswers = Append(@, answer),
                             !.expectingIntakeAnswer = FALSE,
                             !.intakeQuestionIndex = @ + 1,
                             !.pendingFollowups = IF @ > 0 THEN @ - 1 ELSE 0]
  IN  IF recorded.intakeQuestionIndex >= IntakeQuestionCount(recorded)
      THEN finalizeIntake(recorded)
      ELSE askNextIntakeQuestion(recorded)

\* handleUserInput(text), with `pending` advisor requests awaiting a response
handleUserInput(st, text, pending) ==
  IF st.awaitingIntake /\ st.expectingIntakeAnswer
  THEN IF ~isAnswerSufficient(text, st.intakeQuestionIndex,
                              AsksGoal(st, st.intakeQuestionIndex))
       THEN Did(addMessage(st), 0, FALSE, <<>>)
       ELSE recordIntakeAnswer(st, text)
  ELSE IF ~st.awaitingIntake /\ requiresFreshIntake(st, text, pending)
  THEN startIntake(st, 0, FALSE)
  ELSE IF /\ ~st.awaitingIntake
          /\ st.intakeQuestionIndex = 0
          /\ ConversationLength(st, pending) <= 2
  THEN startIntake(st, 0, FALSE)
  ELSE Did(st, 1, FALSE, <<>>)

\* submitPromptFromTextarea(textarea) for a text that is not empty
submitPromptFromTextarea(st, text, pending) ==
  handleUserInput(addMessage(st), text, pending)

\* the responses of /api/analyze: the fetch failed or was answered with an
\* error, or formatAdvisorResponse found this many follow-up questions
MaxFollowups == 2

AdvisorResponses ==
  {[ok |-> FALSE, followupQuestions |-> 0]}
    \cup {[ok |-> TRUE, followupQuestions |-> n] : n \in 0..MaxFollowups}

\* the rest of sendAdvisorRequest once the fetch settled: the pending message
\* is replaced by the answer, or by the apology of the catch block
advisorResponded(st, response) ==
  IF ~response.ok THEN Did(addMessage(st), 0, FALSE, <<>>)
  ELSE IF response.followupQuestions > 0
  THEN startIntake(addMessage(st), response.followupQuestions, TRUE)
  ELSE Did([addMessage(st) EXCEPT !.dynamicIntakeQuestions = 0,
                                  !.pendingFollowups = 0,
                                  !.awaitingIntake = FALSE,
                                  !.expectingIntakeAnswer = FALSE],
           0, FALSE, <<>>)

MaxInputs == 8

InitIntake ==
  /\ scoreVariantCursor = 0
  /\ LOCKED_INSIGHTS = LockedInsightsLiteral
  /\ EXPERIMENT_LIB = ExperimentLibLiteral
  /\ CHECKLIST_LIB = ChecklistLibLiteral
  /\ input = [seed |-> 1, tone |-> RequestTone, builder |-> RequestBuilder]
  /\ call = [op |-> "none"]
  /\ ret = None
  /\ memo = None
  /\ callerPool = <<>>
  /\ calls = 0
  /\ ServerIdle

intakeVars ==
  <<scoreVariantCursor, LOCKED_INSIGHTS, EXPERIMENT_LIB, CHECKLIST_LIB, input, ret, memo,
    callerPool, OPENAI_API_KEY, FREE_BUILD_LIMIT, SESSION_STORE, SESSION_INDEX_BY_CUSTOMER,
    now>>

\* a handler of the page ran: its state is stored, its advisor requests are
\* in flight (requests holds the prompts' origins) and counted in liveCalls
PageDid(op, did, inFlight) ==
  /\ state' = did.state
  /\ requests' = IF did.sent = 0 THEN inFlight
                 ELSE Append(inFlight, IF did.finalized THEN "finalizeIntake"
                                       ELSE "handleUserInput")
  /\ liveCalls' = liveCalls + did.sent
  /\ call' = [op |-> op, sent |-> did.sent, finalized |-> did.finalized,
              answers |-> did.answers]

\* the user submits a text
UserSubmits ==
  /\ calls < MaxInputs
  /\ \E text \in UserTexts :
       PageDid("handleUserInput", submitPromptFromTextarea(state, text, Len(requests)),
               requests)
  /\ calls' = calls + 1
  /\ UNCHANGED intakeVars

\* the fetch of an advisor request in flight settles
AdvisorResponds ==
  /\ \E r \in DOMAIN requests, response \in AdvisorResponses :
       PageDid("sendAdvisorRequest", advisorResponded(state, response),
               RemoveAt(requests, r))
  /\ UNCHANGED calls
  /\ UNCHANGED intakeVars

NextIntake == UserSubmits \/ AdvisorResponds

SpecIntake == InitIntake /\ [][NextIntake]_vars

\* C30: once awaitingIntake is set it is cleared only by finalizeIntake, which
\* runs only when every intake question has a recorded sufficient answer and
\* then sends exactly one advisor request; an advisor response that arrives
\* during the intake leaves the intake as it is
IntakeEndsOnlyByFinalize ==
  [][/\ (state.awaitingIntake /\ ~state'.awaitingIntake) => call'.finalized
     /\ call'.finalized =>
          /\ Len(call'.answers) = IntakeQuestionCount(state)
          /\ \A k \in DOMAIN call'.answers :
               isAnswerSufficient(call'.answers[k], k - 1, AsksGoal(state, k - 1))
          /\ call'.sent = 1
          /\ liveCalls' = liveCalls + 1
     /\ (call'.op = "sendAdvisorRequest" /\ state.awaitingIntake) =>
          /\ state'.awaitingIntake
          /\ state'.intakeAnswers = state.intakeAnswers
          /\ state'.intakeQuestionIndex = state.intakeQuestionIndex]_vars

\* what does hold: finalizeIntake runs only with a sufficient answer to every
\* question and sends exactly one advisor request
FinalizeAfterEveryAnswer ==
  [][call'.finalized =>
       /\ state.awaitingIntake /\ ~state'.awaitingIntake
       /\ Len(call'.answers) = IntakeQuestionCount(state)
       /\ \A k \in DOMAIN call'.answers :
            isAnswerSufficient(call'.answers[k], k - 1, AsksGoal(state, k - 1))
       /\ call'.sent = 1
       /\ liveCalls' = liveCalls + 1]_vars

\* an advisor response without follow-up questions arrived while an intake
\* question was waiting for its answer
ResponseArrivedDuringIntake ==
  /\ call.op = "sendAdvisorRequest"
  /\ ~state.awaitingIntake
  /\ state.intakeQuestionIndex > 0
====
